---- MODULE Spec2Model ----
(***************************************************************************)
(* Reminder scheduler and digest aggregator of the chore application       *)
(* (reminderScheduler in src/scripts/seed-dev.ts, lines 263-668).          *)
(*                                                                         *)
(* Time is counted in minutes since an epoch that is 00:00 UTC.  One       *)
(* invocation of processDueReminders or processDailyDigests is one action: *)
(* the passes are invoked one after the other by the external trigger and  *)
(* each captures `now` once, at its start.  SpecOverlap instead runs two   *)
(* invocations of processDueReminders from one await to the next.          *)
(* The save hook of the Chore model (src/models/Chore.ts) and the bulk     *)
(* assignment route (src/unnamed/part_004) are the actions of SpecChores.  *)
(***************************************************************************)
EXTENDS Integers, Sequences, FiniteSets, TLC

\* ------------------------------------------------------------------ bounds
MaxTicks == 5
MaxLog == 4
MaxRuns == 2
MaxWrites == 3
MaxLead == 3

\* ------------------------------------------------------- program constants
MinutesPerHour == 60
HoursPerDay == 24
LookAheadHours == 24
RateLimitHours == 12
DaysPerWeek == 7

DayMinutes == HoursPerDay * MinutesPerHour

\* ------------------------------------------------------------- population
Null == "null"
\* A timestamp field that was never set; a set one holds <<t>>.
Absent == <<>>
Users == {"u1", "u2"}
Families == {"f1", "f2"}
Chores == {1, 2}

\* A User document as the schema defaults leave it; present tells whether the
\* document is in the collection.
NewUser ==
  [present |-> FALSE, familyId |-> Absent, families |-> <<>>,
   customerId |-> Absent, priceId |-> Absent, hasAccess |-> FALSE]

\* The User collection while the scheduler runs: both users, in both families.
BaseUsers ==
  [u \in Users |-> [NewUser EXCEPT !.present = TRUE, !.families = <<"f1", "f2">>]]

\* The clock starts at 00:00 UTC of day 1 and advances in steps of six hours.
StartClock == DayMinutes
TickMinutes == 6 * MinutesPerHour
MaxClock == StartClock + MaxTicks * TickMinutes

\* Offsets of the server's local time from UTC, in minutes.
TZOffsets == {0, -360}

\* Due dates a chore may carry (minutes since the epoch), or none.
DueDates == {StartClock + 6 * MinutesPerHour,
             StartClock + 24 * MinutesPerHour,
             StartClock + 72 * MinutesPerHour}

ActiveStatuses == {"pending", "in_progress"}
Statuses == {"pending", "in_progress", "completed", "verified", "rejected"}

VARIABLES
  clock,        \* the wall clock, minutes since the epoch (UTC)
  tz,           \* the server's offset from UTC, minutes
  chores,       \* the Chore collection: chore id -> document
  prefs,        \* the NotificationPreferences collection: <<user, family>> -> document
  lastOp,       \* the operation that ran last
  reminderOut,  \* what the last processDueReminders pass did with each chore
  reminderLog,  \* successful reminder dispatches of the last 12 hours, oldest first
  digestOut,    \* what the last processDailyDigests pass did with each record
  digestLog,    \* successful digest dispatches of today and yesterday, oldest first
  digestRuns,   \* processDailyDigests invocations since the clock last advanced
  stored,       \* the <<user, family>> pairs whose preference document exists
  created,      \* the pairs whose document the call that ran last created
  args,         \* the arguments of the call that ran last
  returned,     \* what the call that ran last gave back to its caller
  digestPayload,\* the digest each record was last sent, per record
  inflight,     \* the overlapping processDueReminders invocations in progress
  writes,       \* the writes made to the Chore collection so far
  users         \* the User collection: id -> document

vars == <<clock, tz, chores, prefs, lastOp, reminderOut, reminderLog, digestOut, digestLog,
          digestRuns, stored, created, args, returned, digestPayload, inflight, writes, users>>

\* ------------------------------------------------------- stored documents
\* A time of day, as the string "HH:MM" splits into hours and minutes.
HHMM(h, m) == <<h, m>>

\* The settings a preference record may hold.  Lead times are in days
\* (first, second) and hours (final); quietStart = quietEnd is an empty window.
\* Tiered reminders, quiet from 22:00 to 06:00, no digest.
ProfileTiered ==
  [emailEnabled |-> TRUE, choreReminders |-> TRUE, dailyDigest |-> FALSE,
   firstReminder |-> 3, secondReminder |-> 1, finalReminder |-> 2,
   quietStart |-> HHMM(22, 0), quietEnd |-> HHMM(6, 0),
   dailyDigestTime |-> HHMM(18, 0)]

\* Every tier switched off, no quiet hours, digest at 18:00.
ProfileZero ==
  [emailEnabled |-> TRUE, choreReminders |-> TRUE, dailyDigest |-> TRUE,
   firstReminder |-> 0, secondReminder |-> 0, finalReminder |-> 0,
   quietStart |-> HHMM(0, 0), quietEnd |-> HHMM(0, 0),
   dailyDigestTime |-> HHMM(18, 0)]

\* Chore reminders switched off, quiet from 22:00 to 06:00, digest at 00:00.
ProfileDigestOnly ==
  [emailEnabled |-> TRUE, choreReminders |-> FALSE, dailyDigest |-> TRUE,
   firstReminder |-> 3, secondReminder |-> 1, finalReminder |-> 2,
   quietStart |-> HHMM(22, 0), quietEnd |-> HHMM(6, 0),
   dailyDigestTime |-> HHMM(0, 0)]

\* The email channel switched off, everything else as in the tiered profile.
ProfileEmailOff ==
  [emailEnabled |-> FALSE, choreReminders |-> TRUE, dailyDigest |-> FALSE,
   firstReminder |-> 3, secondReminder |-> 1, finalReminder |-> 2,
   quietStart |-> HHMM(22, 0), quietEnd |-> HHMM(6, 0),
   dailyDigestTime |-> HHMM(18, 0)]

\* First reminder three days and second reminder two days before the due
\* date, no quiet hours.
ProfileEarlyTiers ==
  [emailEnabled |-> TRUE, choreReminders |-> TRUE, dailyDigest |-> FALSE,
   firstReminder |-> 3, secondReminder |-> 2, finalReminder |-> 2,
   quietStart |-> HHMM(0, 0), quietEnd |-> HHMM(0, 0),
   dailyDigestTime |-> HHMM(18, 0)]

Profiles == {ProfileTiered, ProfileZero, ProfileDigestOnly}

\* The settings of a record that getOrCreatePreferences creates.
DefaultProfile == ProfileTiered

Records == Users \X Families

NewPreferences(profile) ==
  [settings |-> profile, choreReminder |-> Absent, dailyDigest |-> Absent]

\* The documents chore c may be: chore 1 is a pending chore of u1 in f1 with
\* any of the due dates; chore 2 is due a day after the start and varies in
\* family, assignee and status.
ChoreDocs(c) ==
  IF c = 1
  THEN [family : {"f1"}, assignedTo : {"u1"}, dueDate : DueDates, status : {"pending"},
        completedAt : {Absent}, verifiedAt : {Absent}, points : {5},
        photoVerification : {Absent}]
  ELSE [family : Families, assignedTo : Users \cup {Null},
        dueDate : {StartClock + 24 * MinutesPerHour},
        status : {"in_progress"},
        completedAt : {Absent}, verifiedAt : {Absent}, points : {10},
        photoVerification : {Absent}]
       \cup
       [family : Families, assignedTo : Users \cup {Null},
        dueDate : {StartClock + 24 * MinutesPerHour},
        status : {"completed"},
        completedAt : {<<StartClock - 6 * MinutesPerHour>>}, verifiedAt : {Absent},
        points : {10}, photoVerification : {Absent}]

ChoreCollections ==
  { cs \in [Chores -> UNION {ChoreDocs(c) : c \in Chores}] :
      \A c \in Chores : cs[c] \in ChoreDocs(c) }

\* The preference collections at the start: the records of u1 vary, those of
\* u2 are tiered.
InitialPrefs ==
  { ps \in [Records -> {NewPreferences(s) : s \in Profiles}] :
      \A f \in Families : ps[<<"u2", f>>].settings = ProfileTiered }

TypeOK ==
  /\ clock \in StartClock..MaxClock
  /\ tz \in TZOffsets
  /\ \A c \in Chores :
       /\ chores[c].family \in Families
       /\ chores[c].assignedTo \in Users \cup {Null}
       /\ chores[c].status \in Statuses
       /\ Len(chores[c].completedAt) <= 1
       /\ Len(chores[c].verifiedAt) <= 1
  /\ \A r \in Records :
       /\ prefs[r].settings \in Profiles \cup {ProfileEmailOff, ProfileEarlyTiers}
       /\ Len(prefs[r].choreReminder) <= 1
       /\ Len(prefs[r].dailyDigest) <= 1

\* ------------------------------------------------------------ time helpers
\* Math.ceil(a / b) for an integer a of either sign and b > 0.
CeilDiv(a, b) == IF a >= 0 THEN (a + b - 1) \div b ELSE -((-a) \div b)

\* Date.toTimeString().slice(0, 5): local wall time as HH:MM.
LocalHHMM(t, offset) ==
  HHMM(((t + offset) \div MinutesPerHour) % HoursPerDay, (t + offset) % MinutesPerHour)

\* Date.toISOString().split("T")[0]: the calendar date in UTC, as a day number.
IsoDate(t) == t \div DayMinutes

\* Minutes since midnight of an HH:MM value.
MinuteOfDay(hm) == hm[1] * MinutesPerHour + hm[2]

\* preferences.isNotificationAllowed(): FALSE inside the quiet-hours window
\* [quietStart, quietEnd) of local time; the window may wrap past midnight.
InQuietHours(p, t, offset) ==
  LET m == MinuteOfDay(LocalHHMM(t, offset))
      s == MinuteOfDay(p.settings.quietStart)
      e == MinuteOfDay(p.settings.quietEnd)
  IN  IF s <= e THEN s <= m /\ m < e ELSE m >= s \/ m < e

IsNotificationAllowed(p, t, offset) == ~InQuietHours(p, t, offset)

\* preferences.updateLastNotification(category): stamps the category with the
\* current time and saves the record.
UpdateLastNotification(p, category, t) ==
  IF category = "choreReminder" THEN [p EXCEPT !.choreReminder = <<t>>]
  ELSE [p EXCEPT !.dailyDigest = <<t>>]

\* NotificationPreferences.getOrCreatePreferences(user, family): the stored
\* pairs once the record of r was fetched, and created if it was missing.  A
\* missing record is held in prefs with the default settings and no timestamp.
GetOrCreatePreferences(st, r) == st \cup {r}

\* ---------------------------------------------------------- return values
\* What a call gives back to its caller: nothing (a resolved promise of
\* undefined), null, a value, or an exception.
Result(kind, value) == [kind |-> kind, value |-> value]
NoResult == Result("none", <<>>)
Undefined == Result("undefined", <<>>)

\* OnFailure letting the exception leave the entry point.
OnFailure_Rethrow(entry) == Result("exception", <<>>)

\* The catch block around the body of an entry point: the error is logged;
\* getReminderStats returns null, the others return nothing.
OnFailure(entry) ==
  IF entry = "getReminderStats" THEN Result("null", <<>>) ELSE Undefined

\* ChoresDueForReminders without the status filter.
ChoresDueForReminders_AnyStatus(cs, now) ==
  { c \in Chores :
      /\ cs[c].dueDate >= now
      /\ cs[c].dueDate <= now + LookAheadHours * MinutesPerHour
      /\ cs[c].assignedTo # Null }

\* --------------------------------------------------- processDueReminders
\* Chore.find({dueDate: {$gte: now, $lte: oneDayFromNow}, status: {$in: ...},
\*             assignedTo: {$exists: true, $ne: null}})
ChoresDueForReminders(cs, now) ==
  { c \in Chores :
      /\ cs[c].dueDate >= now
      /\ cs[c].dueDate <= now + LookAheadHours * MinutesPerHour
      /\ cs[c].status \in ActiveStatuses
      /\ cs[c].assignedTo # Null }

DaysUntilDue(due, now) == CeilDiv(due - now, DayMinutes)

\* ShouldSendReminder catching up on a first or second tier whose day passed.
ShouldSendReminder_CatchUp(p, due, now) ==
  LET daysUntilDue == DaysUntilDue(due, now) IN
  \/ daysUntilDue <= 0
  \/ daysUntilDue <= p.settings.firstReminder
  \/ daysUntilDue <= p.settings.secondReminder

\* ShouldSendReminder without the branch of the second tier.
ShouldSendReminder_NoSecondTier(p, due, now) ==
  LET daysUntilDue == DaysUntilDue(due, now) IN
  IF daysUntilDue <= 0 THEN TRUE
  ELSE IF daysUntilDue = p.settings.firstReminder THEN TRUE
  ELSE IF daysUntilDue = 0
          /\ due - now <= p.settings.finalReminder * MinutesPerHour THEN TRUE
  ELSE FALSE

\* The if / else-if chain that sets shouldSendReminder.
ShouldSendReminder(p, due, now) ==
  LET daysUntilDue == DaysUntilDue(due, now) IN
  IF daysUntilDue <= 0 THEN TRUE
  ELSE IF daysUntilDue = p.settings.firstReminder THEN TRUE
  ELSE IF daysUntilDue = p.settings.secondReminder THEN TRUE
  ELSE IF daysUntilDue = 0
          /\ due - now <= p.settings.finalReminder * MinutesPerHour THEN TRUE
  ELSE FALSE

\* RateLimited with the elapsed time left in clock units, not converted to hours.
RateLimited_NoUnitConversion(p, now) ==
  /\ p.choreReminder # Absent
  /\ now - p.choreReminder[1] < RateLimitHours

\* RateLimited with the comparison made inclusive.
RateLimited_Inclusive(p, now) ==
  /\ p.choreReminder # Absent
  /\ now - p.choreReminder[1] <= RateLimitHours * MinutesPerHour

\* hoursSinceLastReminder < 12, for a stored timestamp.
RateLimited(p, now) ==
  /\ p.choreReminder # Absent
  /\ now - p.choreReminder[1] < RateLimitHours * MinutesPerHour

\* ReminderOutcome looking at the chore-reminder toggle only, not at the email
\* channel.
ReminderOutcome_IgnoreEmailSwitch(c, ps, cs, now, offset, res) ==
  LET ch == cs[c]
      p  == ps[<<ch.assignedTo, ch.family>>]
  IN  IF ~p.settings.choreReminders THEN "disabled"
      ELSE IF ~IsNotificationAllowed(p, now, offset) THEN "quiet"
      ELSE IF ~ShouldSendReminder(p, ch.dueDate, now) THEN "notdue"
      ELSE IF RateLimited(p, now) THEN "ratelimited"
      ELSE IF res = "throw" THEN "error"
      ELSE IF res = "ok" THEN "sent"
      ELSE "failed"

\* ReminderOutcome without the rate-limit check.
ReminderOutcome_NoRateLimit(c, ps, cs, now, offset, res) ==
  LET ch == cs[c]
      p  == ps[<<ch.assignedTo, ch.family>>]
  IN  IF ~p.settings.emailEnabled \/ ~p.settings.choreReminders THEN "disabled"
      ELSE IF ~IsNotificationAllowed(p, now, offset) THEN "quiet"
      ELSE IF ~ShouldSendReminder(p, ch.dueDate, now) THEN "notdue"
      ELSE IF res = "throw" THEN "error"
      ELSE IF res = "ok" THEN "sent"
      ELSE "failed"

\* ReminderOutcome without the quiet-hours check.
ReminderOutcome_NoQuietCheck(c, ps, cs, now, offset, res) ==
  LET ch == cs[c]
      p  == ps[<<ch.assignedTo, ch.family>>]
  IN  IF ~p.settings.emailEnabled \/ ~p.settings.choreReminders THEN "disabled"
      ELSE IF ~ShouldSendReminder(p, ch.dueDate, now) THEN "notdue"
      ELSE IF RateLimited(p, now) THEN "ratelimited"
      ELSE IF res = "throw" THEN "error"
      ELSE IF res = "ok" THEN "sent"
      ELSE "failed"

\* One iteration of the for loop: what happens to chore c, given the
\* preference collection ps as the earlier iterations left it and the outcome
\* res of the dispatcher call ("ok", "fail" or "throw").
ReminderOutcome(c, ps, cs, now, offset, res) ==
  LET ch == cs[c]
      p  == ps[<<ch.assignedTo, ch.family>>]
  IN  IF ~p.settings.emailEnabled \/ ~p.settings.choreReminders THEN "disabled"
      ELSE IF ~IsNotificationAllowed(p, now, offset) THEN "quiet"
      ELSE IF ~ShouldSendReminder(p, ch.dueDate, now) THEN "notdue"
      ELSE IF RateLimited(p, now) THEN "ratelimited"
      ELSE IF res = "throw" THEN "error"
      ELSE IF res = "ok" THEN "sent"
      ELSE "failed"

\* ReminderLoop stamping the record whenever the dispatcher was called and
\* returned, whether or not it reported success.
RECURSIVE ReminderLoop_StampOnFailure(_, _, _, _, _, _, _)
ReminderLoop_StampOnFailure(order, ps, out, cs, now, offset, res) ==
  IF order = <<>> THEN [prefs |-> ps, out |-> out]
  ELSE
    LET c  == Head(order)
        o  == ReminderOutcome(c, ps, cs, now, offset, res[c])
        r  == <<cs[c].assignedTo, cs[c].family>>
        ps2 == IF o \in {"sent", "failed"}
               THEN [ps EXCEPT ![r] = UpdateLastNotification(ps[r], "choreReminder", now)]
               ELSE ps
    IN  ReminderLoop_StampOnFailure(Tail(order), ps2, [out EXCEPT ![c] = o],
                                    cs, now, offset, res)

\* ReminderLoop writing the timestamp for a candidate skipped in quiet hours.
RECURSIVE ReminderLoop_StampOnQuiet(_, _, _, _, _, _, _)
ReminderLoop_StampOnQuiet(order, ps, out, cs, now, offset, res) ==
  IF order = <<>> THEN [prefs |-> ps, out |-> out]
  ELSE
    LET c  == Head(order)
        o  == ReminderOutcome(c, ps, cs, now, offset, res[c])
        r  == <<cs[c].assignedTo, cs[c].family>>
        ps2 == IF o \in {"sent", "quiet"}
               THEN [ps EXCEPT ![r] = UpdateLastNotification(ps[r], "choreReminder", now)]
               ELSE ps
    IN  ReminderLoop_StampOnQuiet(Tail(order), ps2, [out EXCEPT ![c] = o],
                                  cs, now, offset, res)

\* ReminderLoop reading the preferences once, before the loop, and writing
\* the timestamps of the records it sent to after it.
RECURSIVE ReminderLoop_PrefsReadOnce(_, _, _, _, _, _, _)
ReminderLoop_PrefsReadOnce(order, ps, out, cs, now, offset, res) ==
  IF order = <<>>
  THEN [prefs |-> [r \in DOMAIN ps |->
                     IF \E c \in Chores : /\ out[c] = "sent"
                                          /\ <<cs[c].assignedTo, cs[c].family>> = r
                     THEN UpdateLastNotification(ps[r], "choreReminder", now)
                     ELSE ps[r]],
        out |-> out]
  ELSE
    LET c == Head(order)
        o == ReminderOutcome(c, ps, cs, now, offset, res[c])
    IN  ReminderLoop_PrefsReadOnce(Tail(order), ps, [out EXCEPT ![c] = o],
                                   cs, now, offset, res)

\* ReminderLoop leaving the loop at the first candidate that fails.
RECURSIVE ReminderLoop_StopOnFailure(_, _, _, _, _, _, _)
ReminderLoop_StopOnFailure(order, ps, out, cs, now, offset, res) ==
  IF order = <<>> THEN [prefs |-> ps, out |-> out]
  ELSE
    LET c  == Head(order)
        o  == ReminderOutcome(c, ps, cs, now, offset, res[c])
        r  == <<cs[c].assignedTo, cs[c].family>>
        ps2 == IF o = "sent"
               THEN [ps EXCEPT ![r] = UpdateLastNotification(ps[r], "choreReminder", now)]
               ELSE ps
    IN  IF o \in {"failed", "error"} THEN [prefs |-> ps2, out |-> [out EXCEPT ![c] = o]]
        ELSE ReminderLoop_StopOnFailure(Tail(order), ps2, [out EXCEPT ![c] = o],
                                        cs, now, offset, res)

\* The for loop over the candidates in the order the query returned them.
\* Yields the preference collection and the per-chore outcomes at its end.
RECURSIVE ReminderLoop(_, _, _, _, _, _, _)
ReminderLoop(order, ps, out, cs, now, offset, res) ==
  IF order = <<>> THEN [prefs |-> ps, out |-> out]
  ELSE
    LET c  == Head(order)
        o  == ReminderOutcome(c, ps, cs, now, offset, res[c])
        r  == <<cs[c].assignedTo, cs[c].family>>
        ps2 == IF o = "sent"
               THEN [ps EXCEPT ![r] = UpdateLastNotification(ps[r], "choreReminder", now)]
               ELSE ps
    IN  ReminderLoop(Tail(order), ps2, [out EXCEPT ![c] = o], cs, now, offset, res)

\* The sequences that list every element of S once.
RECURSIVE Orders(_)
Orders(S) ==
  IF S = {} THEN {<<>>}
  ELSE UNION { { <<x>> \o rest : rest \in Orders(S \ {x}) } : x \in S }

DispatchResults == {"ok", "fail", "throw"}

NoOutcome == [c \in Chores |-> "none"]
NoDigestOutcome == [r \in Records |-> "none"]
NoPayload == [r \in Records |-> <<>>]

\* The entries dispatched in one pass, in dispatch order.
RECURSIVE SentEntries(_, _, _, _)
SentEntries(order, out, cs, now) ==
  IF order = <<>> THEN <<>>
  ELSE (IF out[Head(order)] = "sent"
        THEN << [user |-> cs[Head(order)].assignedTo,
                 family |-> cs[Head(order)].family, at |-> now] >>
        ELSE <<>>) \o SentEntries(Tail(order), out, cs, now)

\* Keeps the last MaxLog entries of a log.
Trim(log) ==
  IF Len(log) <= MaxLog THEN log ELSE SubSeq(log, Len(log) - MaxLog + 1, Len(log))

\* The records that the iterations of a pass fetched or created.
RECURSIVE Fetched(_, _, _, _)
Fetched(order, out, cs, st) ==
  IF order = <<>> THEN st
  ELSE Fetched(Tail(order), out, cs,
               IF out[Head(order)] = "none" THEN st
               ELSE GetOrCreatePreferences(st, <<cs[Head(order)].assignedTo,
                                                 cs[Head(order)].family>>))

\* One invocation.  Either dbConnect or the candidate query fails and the
\* outer catch block ends the pass, or the loop runs over the candidates.
ProcessDueReminders ==
  \/ /\ lastOp' = "remindersFailed"
     /\ returned' = OnFailure("processDueReminders")
     /\ args' = <<>>
     /\ reminderOut' = NoOutcome
     /\ digestOut' = NoDigestOutcome
     /\ created' = {}
     /\ digestPayload' = NoPayload
     /\ UNCHANGED <<clock, tz, chores, prefs, reminderLog, digestLog, digestRuns, stored,
                    inflight, writes, users>>
  \/ \E order \in Orders(ChoresDueForReminders(chores, clock)) :
     \E res \in [ChoresDueForReminders(chores, clock) -> DispatchResults] :
       LET run == ReminderLoop(order, prefs, NoOutcome, chores, clock, tz, res) IN
       /\ prefs' = run.prefs
       /\ stored' = Fetched(order, run.out, chores, stored)
       /\ created' = stored' \ stored
       /\ reminderOut' = run.out
       /\ reminderLog' = Trim(reminderLog \o SentEntries(order, run.out, chores, clock))
       /\ lastOp' = "reminders"
       /\ returned' = Undefined
       /\ args' = <<>>
       /\ digestOut' = NoDigestOutcome
       /\ digestPayload' = NoPayload
       /\ UNCHANGED <<clock, tz, chores, digestLog, digestRuns, inflight, writes, users>>

\* --------------------------------------------------- processDailyDigests
\* DigestPreferences without the match of dailyDigestTime.
DigestPreferences_AnyTime(ps, now, offset) ==
  { r \in stored :
      /\ ps[r].settings.emailEnabled
      /\ ps[r].settings.dailyDigest }

\* NotificationPreferences.find({"email.enabled": true, "email.dailyDigest": true,
\*                               dailyDigestTime: currentTime})
DigestPreferences(ps, now, offset) ==
  { r \in stored :
      /\ ps[r].settings.emailEnabled
      /\ ps[r].settings.dailyDigest
      /\ ps[r].settings.dailyDigestTime = LocalHHMM(now, offset) }

\* AlreadySentToday comparing elapsed time: a digest less than a day old.
AlreadySentToday_Within24h(p, now) ==
  /\ p.dailyDigest # Absent
  /\ now - p.dailyDigest[1] < DayMinutes

\* AlreadySentToday comparing the stored date with yesterday's.
AlreadySentToday_OffByOne(p, now) ==
  /\ p.dailyDigest # Absent
  /\ IsoDate(p.dailyDigest[1]) = IsoDate(now) - 1

\* lastDigestTime && lastDigestTime.toISOString().split("T")[0] === today
AlreadySentToday(p, now) ==
  /\ p.dailyDigest # Absent
  /\ IsoDate(p.dailyDigest[1]) = IsoDate(now)

\* What the dispatcher call and the references of one record may do: the
\* dispatcher succeeds, reports a failure or throws, or the populated user or
\* family of the record is null because its document no longer exists.
DigestResults == {"ok", "fail", "throw", "nouser", "nofamily"}

\* DigestOutcome without the already-sent-today guard.
DigestOutcome_NoGuard(p, now, offset, res) ==
  IF ~IsNotificationAllowed(p, now, offset) THEN "quiet"
  ELSE IF res = "nofamily" THEN "error"
  ELSE IF res = "nouser" THEN "abort"
  ELSE IF res = "throw" THEN "error"
  ELSE IF res = "ok" THEN "sent"
  ELSE "failed"

\* One iteration of the for loop over the preference records.  "abort" is the
\* iteration whose catch block throws itself: it reads pref.user._id, and pref.user
\* is null.
DigestOutcome(p, now, offset, res) ==
  IF AlreadySentToday(p, now) THEN "already"
  ELSE IF ~IsNotificationAllowed(p, now, offset) THEN "quiet"
  ELSE IF res = "nofamily" THEN "error"
  ELSE IF res = "nouser" THEN "abort"
  ELSE IF res = "throw" THEN "error"
  ELSE IF res = "ok" THEN "sent"
  ELSE "failed"

\* DigestLoop stamping the record whenever the dispatcher was called, whether
\* or not it reported success.
RECURSIVE DigestLoop_StampOnFailure(_, _, _, _, _, _)
DigestLoop_StampOnFailure(order, ps, out, now, offset, res) ==
  IF order = <<>> THEN [prefs |-> ps, out |-> out]
  ELSE
    LET r  == Head(order)
        o  == DigestOutcome(ps[r], now, offset, res[r])
        ps2 == IF o \in {"sent", "failed"}
               THEN [ps EXCEPT ![r] = UpdateLastNotification(ps[r], "dailyDigest", now)]
               ELSE ps
        out2 == [out EXCEPT ![r] = o]
    IN  IF o = "abort" THEN [prefs |-> ps2, out |-> out2]
        ELSE DigestLoop_StampOnFailure(Tail(order), ps2, out2, now, offset, res)

\* The for loop; an exception that leaves the loop body ends the pass.
RECURSIVE DigestLoop(_, _, _, _, _, _)
DigestLoop(order, ps, out, now, offset, res) ==
  IF order = <<>> THEN [prefs |-> ps, out |-> out]
  ELSE
    LET r  == Head(order)
        o  == DigestOutcome(ps[r], now, offset, res[r])
        ps2 == IF o = "sent"
               THEN [ps EXCEPT ![r] = UpdateLastNotification(ps[r], "dailyDigest", now)]
               ELSE ps
        out2 == [out EXCEPT ![r] = o]
    IN  IF o = "abort" THEN [prefs |-> ps2, out |-> out2]
        ELSE DigestLoop(Tail(order), ps2, out2, now, offset, res)

\* A JavaScript number: an integer or NaN.
Num(n) == [nan |-> FALSE, n |-> n]
NaN == [nan |-> TRUE, n |-> 0]

\* total + value, where value is <<v>> or, for undefined, <<>>: adding
\* undefined or adding to NaN gives NaN.
JsAdd(total, value) ==
  IF total.nan \/ value = <<>> THEN NaN ELSE Num(total.n + value[1])

\* The paths of choreSchema among the fields the stored documents carry here.
ChoreSchemaPaths == {"family", "assignedTo", "dueDate", "status", "completedAt", "verifiedAt"}

\* chore.<path> of a document read through the Chore model: <<value>> for a
\* path of the schema, <<>> (undefined) for any other name, whatever the stored
\* document holds under it.
ChoreProperty(doc, path) ==
  IF path \in ChoreSchemaPaths THEN <<doc[path]>> ELSE <<>>

\* setHours(0, 0, 0, 0): midnight of the local day of t, as a UTC time.
StartOfLocalDay(t, offset) == ((t + offset) \div DayMinutes) * DayMinutes - offset

\* Chore.find({family, status: {$in: ["completed", "verified"]},
\*             completedAt: {$gte: yesterdayStart, $lte: todayEnd}})
\* todayEnd is the last millisecond of the local day.
CompletedChores(cs, family, now, offset) ==
  { c \in Chores :
      /\ cs[c].family = family
      /\ cs[c].status \in {"completed", "verified"}
      /\ cs[c].completedAt # Absent
      /\ cs[c].completedAt[1] >= StartOfLocalDay(now, offset) - DayMinutes
      /\ cs[c].completedAt[1] < StartOfLocalDay(now, offset) + DayMinutes }

\* Chore.find({family, dueDate: {$lt: now}, status: {$in: ["pending", "in_progress"]}})
OverdueChores(cs, family, now) ==
  { c \in Chores :
      /\ cs[c].family = family
      /\ cs[c].dueDate < now
      /\ cs[c].status \in ActiveStatuses }

\* countDocuments over every family's documents.
PendingApprovals_AllFamilies(cs, family) ==
  Cardinality({ c \in Chores : cs[c].photoVerification = <<"pending">> })

\* Chore.countDocuments({family, "photoVerification.status": "pending"}): the
\* filter goes to the database as written and counts stored documents.
PendingApprovals(cs, family) ==
  Cardinality({ c \in Chores : /\ cs[c].family = family
                               /\ cs[c].photoVerification = <<"pending">> })

\* completedChores.reduce((total, chore) => total + chore.points, total)
RECURSIVE SumPoints(_, _, _)
SumPoints(S, cs, total) ==
  IF S = {} THEN total
  ELSE LET c == CHOOSE x \in S : TRUE
       IN  SumPoints(S \ {c}, cs, JsAdd(total, ChoreProperty(cs[c], "points")))

\* overdueChores.map(...): one entry per document found.
RECURSIVE OverdueEntries(_, _, _)
OverdueEntries(S, cs, now) ==
  IF S = {} THEN <<>>
  ELSE LET c == CHOOSE x \in S : TRUE
       IN  << [chore |-> c, daysOverdue |-> CeilDiv(now - cs[c].dueDate, DayMinutes)] >>
           \o OverdueEntries(S \ {c}, cs, now)

\* completedChores.map(...): one entry per document found.
RECURSIVE CompletedEntries(_, _)
CompletedEntries(S, cs) ==
  IF S = {} THEN <<>>
  ELSE LET c == CHOOSE x \in S : TRUE
       IN  << [chore |-> c, points |-> ChoreProperty(cs[c], "points")] >>
           \o CompletedEntries(S \ {c}, cs)

\* The digest object built for a record of the family.
Digest(cs, family, now, offset) ==
  [completedChores |-> CompletedEntries(CompletedChores(cs, family, now, offset), cs),
   overdueChores |-> OverdueEntries(OverdueChores(cs, family, now), cs, now),
   pendingApprovals |-> PendingApprovals(cs, family),
   totalPointsEarned |-> SumPoints(CompletedChores(cs, family, now, offset), cs, Num(0))]

\* The digests dispatched in one pass, in dispatch order.
RECURSIVE SentDigests(_, _, _)
SentDigests(order, out, now) ==
  IF order = <<>> THEN <<>>
  ELSE (IF out[Head(order)] = "sent"
        THEN << [user |-> Head(order)[1], family |-> Head(order)[2], at |-> now] >>
        ELSE <<>>) \o SentDigests(Tail(order), out, now)

\* One invocation.  Either dbConnect or the preference query fails and the
\* outer catch block ends the pass, or the loop runs over the records found;
\* an exception that leaves the loop ends in the same catch block.
ProcessDailyDigests ==
  /\ digestRuns < MaxRuns
  /\ digestRuns' = digestRuns + 1
  /\ args' = <<>>
  /\ reminderOut' = NoOutcome
  /\ created' = {}
  /\ UNCHANGED <<clock, tz, chores, reminderLog, stored, inflight, writes, users>>
  /\ \/ /\ lastOp' = "digestsFailed"
        /\ returned' = OnFailure("processDailyDigests")
        /\ digestOut' = NoDigestOutcome
        /\ digestPayload' = NoPayload
        /\ UNCHANGED <<prefs, digestLog>>
     \/ \E order \in Orders(DigestPreferences(prefs, clock, tz)) :
        \E res \in [DigestPreferences(prefs, clock, tz) -> DigestResults] :
          LET run == DigestLoop(order, prefs, [r \in Records |->
                       IF r \in DigestPreferences(prefs, clock, tz) THEN "unprocessed"
                       ELSE "none"],
                       clock, tz, res) IN
          /\ prefs' = run.prefs
          /\ digestOut' = run.out
          /\ digestLog' = Trim(digestLog \o SentDigests(order, run.out, clock))
          /\ lastOp' = "digests"
          /\ returned' = IF \E r \in Records : run.out[r] = "abort"
                         THEN OnFailure("processDailyDigests") ELSE Undefined
          /\ digestPayload' =
               [r \in Records |->
                  IF run.out[r] \in {"sent", "failed", "error"}
                     /\ res[r] \in DispatchResults
                  THEN <<Digest(chores, r[2], clock, tz)>>
                  ELSE <<>>]

\* --------------------------------- processDueReminders, await by await
\* Invocations of processDueReminders that overlap: each runs from one await
\* to the next in one step.  An invocation holds the time it captured, the
\* candidates it still has to process and, while it dispatches, the timestamp
\* of the preference document it fetched.

\* The overlapping invocations: none is in progress.
Runners == {"A", "B"}
IdleRun == [pc |-> "idle", now |-> 0, todo |-> <<>>, seen |-> Absent]
NoRuns == [i \in Runners |-> IdleRun]

\* The invocation proceeds to its next candidate, or returns after the last.
NextCandidate(run) ==
  IF Len(run.todo) <= 1 THEN IdleRun
  ELSE [run EXCEPT !.pc = "looping", !.todo = Tail(run.todo), !.seen = Absent]

\* The steps change neither the chores nor what the atomic passes record.
OverlapFrame ==
  /\ args' = <<>>
  /\ returned' = NoResult
  /\ UNCHANGED <<clock, tz, chores, reminderOut, digestOut, digestLog, digestRuns,
                 digestPayload, writes, users>>

\* dbConnect, new Date() and the candidate query.
StartPass(i) ==
  /\ inflight[i].pc = "idle"
  /\ \E order \in Orders(ChoresDueForReminders(chores, clock)) :
       inflight' = [inflight EXCEPT ![i] =
                      IF order = <<>> THEN IdleRun
                      ELSE [pc |-> "looping", now |-> clock, todo |-> order, seen |-> Absent]]
  /\ lastOp' = "start"
  /\ created' = {}
  /\ OverlapFrame
  /\ UNCHANGED <<prefs, stored, reminderLog>>

\* getOrCreatePreferences for the next candidate and the checks on the
\* document fetched, up to the dispatcher call.
FetchAndCheck(i) ==
  /\ inflight[i].pc = "looping"
  /\ LET c == Head(inflight[i].todo)
         r == <<chores[c].assignedTo, chores[c].family>>
     IN  /\ stored' = GetOrCreatePreferences(stored, r)
         /\ created' = stored' \ stored
         /\ inflight' = [inflight EXCEPT ![i] =
                IF ReminderOutcome(c, prefs, chores, inflight[i].now, tz, "ok") = "sent"
                THEN [inflight[i] EXCEPT !.pc = "dispatching",
                                         !.seen = prefs[r].choreReminder]
                ELSE NextCandidate(inflight[i])]
  /\ lastOp' = "fetch"
  /\ OverlapFrame
  /\ UNCHANGED <<prefs, reminderLog>>

\* The dispatcher call returns: on success the invocation goes on to stamp
\* the document, otherwise to its next candidate.
Dispatch(i) ==
  /\ inflight[i].pc = "dispatching"
  /\ \E res \in DispatchResults :
       LET c == Head(inflight[i].todo) IN
       IF res = "ok"
       THEN /\ inflight' = [inflight EXCEPT ![i].pc = "stamping"]
            /\ reminderLog' = Trim(reminderLog \o
                  << [user |-> chores[c].assignedTo, family |-> chores[c].family,
                      at |-> clock, by |-> i, seen |-> inflight[i].seen] >>)
       ELSE /\ inflight' = [inflight EXCEPT ![i] = NextCandidate(inflight[i])]
            /\ UNCHANGED reminderLog
  /\ lastOp' = "dispatch"
  /\ created' = {}
  /\ OverlapFrame
  /\ UNCHANGED <<prefs, stored>>

\* preferences.updateLastNotification("choreReminder") on the document fetched.
Stamp(i) ==
  /\ inflight[i].pc = "stamping"
  /\ LET c == Head(inflight[i].todo)
         r == <<chores[c].assignedTo, chores[c].family>>
     IN  prefs' = [prefs EXCEPT ![r] = UpdateLastNotification(prefs[r], "choreReminder", clock)]
  /\ inflight' = [inflight EXCEPT ![i] = NextCandidate(inflight[i])]
  /\ lastOp' = "stamp"
  /\ created' = {}
  /\ OverlapFrame
  /\ UNCHANGED <<stored, reminderLog>>

\* ------------------------------------------------ scheduleRemindersForChore
\* ScheduledReminders without the tests that a lead time is positive.
ScheduledReminders_NoPositiveCheck(p, due, now) ==
  LET firstReminderTime == due - p.settings.firstReminder * DayMinutes
      secondReminderTime == due - p.settings.secondReminder * DayMinutes
      finalReminderTime == due - p.settings.finalReminder * MinutesPerHour
  IN  (IF firstReminderTime > now
       THEN << [type |-> "first", scheduledFor |-> firstReminderTime,
                daysUntilDue |-> p.settings.firstReminder] >>
       ELSE <<>>)
      \o
      (IF secondReminderTime > now
       THEN << [type |-> "second", scheduledFor |-> secondReminderTime,
                daysUntilDue |-> p.settings.secondReminder] >>
       ELSE <<>>)
      \o
      (IF finalReminderTime > now
       THEN << [type |-> "final", scheduledFor |-> finalReminderTime,
                daysUntilDue |-> 0] >>
       ELSE <<>>)

\* The reminders array built for a chore due at `due` under the settings of p.
\* setDate(getDate() - n) and setHours(getHours() - n) move the local wall
\* time back by n days and n hours; the offset from UTC is fixed, so these are
\* n * 24 hours and n hours.
ScheduledReminders(p, due, now) ==
  LET firstReminderTime == due - p.settings.firstReminder * DayMinutes
      secondReminderTime == due - p.settings.secondReminder * DayMinutes
      finalReminderTime == due - p.settings.finalReminder * MinutesPerHour
  IN  (IF firstReminderTime > now /\ p.settings.firstReminder > 0
       THEN << [type |-> "first", scheduledFor |-> firstReminderTime,
                daysUntilDue |-> p.settings.firstReminder] >>
       ELSE <<>>)
      \o
      (IF secondReminderTime > now /\ p.settings.secondReminder > 0
       THEN << [type |-> "second", scheduledFor |-> secondReminderTime,
                daysUntilDue |-> p.settings.secondReminder] >>
       ELSE <<>>)
      \o
      (IF finalReminderTime > now /\ p.settings.finalReminder > 0
       THEN << [type |-> "final", scheduledFor |-> finalReminderTime,
                daysUntilDue |-> 0] >>
       ELSE <<>>)

\* An id that no chore document carries.
MissingChore == 0

\* One call, for the id of a chore or an id that findById does not find.
ScheduleRemindersForChore ==
  \E choreId \in Chores \cup {MissingChore} :
    /\ args' = <<choreId>>
    /\ reminderOut' = NoOutcome
    /\ digestOut' = NoDigestOutcome
    /\ digestPayload' = NoPayload
    /\ UNCHANGED <<clock, tz, chores, prefs, reminderLog, digestLog, digestRuns, inflight,
                   writes, users>>
    /\ \/ /\ lastOp' = "scheduleFailed"
          /\ returned' = OnFailure("scheduleRemindersForChore")
          /\ UNCHANGED stored
       \/ /\ lastOp' = "schedule"
          /\ IF choreId = MissingChore THEN
               /\ returned' = Undefined
               /\ UNCHANGED stored
             ELSE IF chores[choreId].assignedTo = Null THEN
               /\ returned' = Undefined
               /\ UNCHANGED stored
             ELSE IF chores[choreId].status \in {"completed", "verified"} THEN
               /\ returned' = Undefined
               /\ UNCHANGED stored
             ELSE
               LET r == <<chores[choreId].assignedTo, chores[choreId].family>> IN
               /\ stored' = GetOrCreatePreferences(stored, r)
               /\ returned' =
                    IF ~prefs[r].settings.emailEnabled \/ ~prefs[r].settings.choreReminders
                    THEN Undefined
                    ELSE Result("reminders",
                                ScheduledReminders(prefs[r], chores[choreId].dueDate, clock))
    /\ created' = stored' \ stored

\* ---------------------------------------------------------- getReminderStats
\* query = familyId ? {family: familyId} : {}
InFamily(family, familyId) == familyId = Null \/ family = familyId

\* Chore.countDocuments({...query, dueDate: {$gte: from, $lt: until}, status: ...})
ChoresDueBetween(cs, familyId, from, until) ==
  Cardinality({ c \in Chores :
                  /\ InFamily(cs[c].family, familyId)
                  /\ cs[c].dueDate >= from
                  /\ cs[c].dueDate < until
                  /\ cs[c].status \in ActiveStatuses })

\* OverdueChoreCount that also counts a chore due exactly now.
OverdueChoreCount_Inclusive(cs, familyId, now) ==
  Cardinality({ c \in Chores :
                  /\ InFamily(cs[c].family, familyId)
                  /\ cs[c].dueDate <= now
                  /\ cs[c].status \in ActiveStatuses })

\* Chore.countDocuments({...query, dueDate: {$lt: now}, status: ...})
OverdueChoreCount(cs, familyId, now) ==
  Cardinality({ c \in Chores :
                  /\ InFamily(cs[c].family, familyId)
                  /\ cs[c].dueDate < now
                  /\ cs[c].status \in ActiveStatuses })

\* The stats object.
ReminderStats(cs, ps, st, familyId, now) ==
  [choresDueToday |->
     ChoresDueBetween(cs, familyId, now, now + HoursPerDay * MinutesPerHour),
   choresDueThisWeek |->
     ChoresDueBetween(cs, familyId, now, now + DaysPerWeek * HoursPerDay * MinutesPerHour),
   overdueChores |-> OverdueChoreCount(cs, familyId, now),
   usersWithRemindersEnabled |->
     Cardinality({ r \in st : /\ InFamily(r[2], familyId)
                              /\ ps[r].settings.emailEnabled
                              /\ ps[r].settings.choreReminders }),
   usersWithDailyDigest |->
     Cardinality({ r \in st : /\ InFamily(r[2], familyId)
                              /\ ps[r].settings.emailEnabled
                              /\ ps[r].settings.dailyDigest })]

\* One call, for a family or for every family; a query may fail.
GetReminderStats ==
  \E familyId \in Families \cup {Null} :
    /\ args' = <<familyId>>
    /\ created' = {}
    /\ reminderOut' = NoOutcome
    /\ digestOut' = NoDigestOutcome
    /\ digestPayload' = NoPayload
    /\ UNCHANGED <<clock, tz, chores, prefs, reminderLog, digestLog, digestRuns, stored,
                   inflight, writes, users>>
    /\ \/ /\ lastOp' = "statsFailed"
          /\ returned' = OnFailure("getReminderStats")
       \/ /\ lastOp' = "stats"
          /\ returned' = Result("stats", ReminderStats(chores, prefs, stored, familyId, clock))

\* ------------------------------------------------------------ Chore model
\* choreSchema.pre('save'): the document as saved, given the document as it was
\* loaded and the status assigned to it before save().  isModified('status')
\* holds when the assigned status differs from the loaded one.
PreSave(doc, status, now) ==
  LET modified == status # doc.status
      d1 == [doc EXCEPT !.status = status]
      d2 == IF modified /\ status = "completed" /\ d1.completedAt = Absent
            THEN [d1 EXCEPT !.completedAt = <<now>>] ELSE d1
  IN  IF modified /\ status = "verified" /\ d2.verifiedAt = Absent
      THEN [d2 EXCEPT !.verifiedAt = <<now>>] ELSE d2

\* A status change saved through the Chore model: chore.status = s; chore.save().
SaveStatus ==
  \E c \in Chores : \E s \in Statuses :
    /\ writes < MaxWrites
    /\ writes' = writes + 1
    /\ chores' = [chores EXCEPT ![c] = PreSave(chores[c], s, clock)]
    /\ lastOp' = "save"
    /\ args' = <<c, s>>
    /\ returned' = NoResult
    /\ created' = {}
    /\ reminderOut' = NoOutcome
    /\ digestOut' = NoDigestOutcome
    /\ digestPayload' = NoPayload
    /\ UNCHANGED <<clock, tz, prefs, reminderLog, digestLog, digestRuns, stored, inflight,
                   users>>

\* The update of one bulkWrite operation: the chore is assigned and set to
\* pending; the completion fields are reset when it was completed or verified.
BulkAssignUpdate(doc, assignedTo) ==
  LET d1 == [doc EXCEPT !.assignedTo = assignedTo, !.status = "pending"]
  IN  IF doc.status \in {"completed", "verified"}
      THEN [d1 EXCEPT !.completedAt = Absent, !.verifiedAt = Absent]
      ELSE d1

\* POST /api/families/[familyId]/chores by a parent of the family, for a set
\* of chore ids and an assignee who is a member: the chores of the family
\* among the ids are updated by one bulkWrite, which runs no save hook.
BulkAssign ==
  \E familyId \in Families : \E choreIds \in SUBSET Chores \ {{}} : \E assignedTo \in Users :
    /\ writes < MaxWrites
    /\ writes' = writes + 1
    /\ chores' = [c \in Chores |->
                    IF c \in choreIds /\ chores[c].family = familyId
                    THEN BulkAssignUpdate(chores[c], assignedTo)
                    ELSE chores[c]]
    /\ lastOp' = "bulkAssign"
    /\ args' = <<familyId, choreIds, assignedTo>>
    /\ returned' = NoResult
    /\ created' = {}
    /\ reminderOut' = NoOutcome
    /\ digestOut' = NoDigestOutcome
    /\ digestPayload' = NoPayload
    /\ UNCHANGED <<clock, tz, prefs, reminderLog, digestLog, digestRuns, stored, inflight,
                   users>>

\* ------------------------------------------------------------ environment
\* Entries of a log that are at most 12 hours old at time t.
RECURSIVE Recent(_, _)
Recent(log, t) ==
  IF log = <<>> THEN <<>>
  ELSE (IF t - Head(log).at <= RateLimitHours * MinutesPerHour THEN <<Head(log)>> ELSE <<>>)
       \o Recent(Tail(log), t)

\* Entries of a log dated today or yesterday (UTC) at time t.
RECURSIVE SinceYesterday(_, _)
SinceYesterday(log, t) ==
  IF log = <<>> THEN <<>>
  ELSE (IF IsoDate(Head(log).at) >= IsoDate(t) - 1 THEN <<Head(log)>> ELSE <<>>)
       \o SinceYesterday(Tail(log), t)

\* Time passes between two invocations.
Tick ==
  /\ clock + TickMinutes <= MaxClock
  /\ clock' = clock + TickMinutes
  /\ lastOp' = "tick"
  /\ reminderOut' = NoOutcome
  /\ reminderLog' = Recent(reminderLog, clock')
  /\ digestOut' = NoDigestOutcome
  /\ digestLog' = SinceYesterday(digestLog, clock')
  /\ digestRuns' = 0
  /\ args' = <<>>
  /\ returned' = NoResult
  /\ created' = {}
  /\ digestPayload' = NoPayload
  /\ UNCHANGED <<tz, chores, prefs, stored, inflight, writes, users>>

\* Everything but the two collections, before the first invocation.
InitIdle ==
  /\ clock = StartClock
  /\ tz \in TZOffsets
  /\ lastOp = "init"
  /\ reminderOut = NoOutcome
  /\ reminderLog = <<>>
  /\ digestOut = NoDigestOutcome
  /\ digestLog = <<>>
  /\ digestRuns = 0
  /\ args = <<>>
  /\ returned = NoResult
  /\ created = {}
  /\ digestPayload = NoPayload
  /\ inflight = NoRuns
  /\ writes = 0

InitCommon ==
  /\ InitIdle
  /\ users = BaseUsers

\* Chore 2 is an in-progress chore of u1 in f2.
SecondFamilyChore(cs) ==
  /\ cs[2].family = "f2"
  /\ cs[2].assignedTo = "u1"
  /\ cs[2].status = "in_progress"

\* Both entry points, invoked in any order as time passes.
Init ==
  /\ InitCommon
  /\ stored = Records
  /\ chores \in {cs \in ChoreCollections : SecondFamilyChore(cs)}
  /\ prefs \in InitialPrefs

Next ==
  \/ Tick
  \/ ProcessDueReminders
  \/ ProcessDailyDigests

Spec == Init /\ [][Next]_vars

\* The reminder entry point alone, over every chore collection.
InitReminders ==
  /\ InitCommon
  /\ stored = Records
  /\ chores \in ChoreCollections
  /\ prefs \in InitialPrefs

NextReminders ==
  \/ Tick
  \/ ProcessDueReminders

SpecReminders == InitReminders /\ [][NextReminders]_vars

\* The digest entry point alone.
InitDigests ==
  /\ InitCommon
  /\ stored = Records
  /\ chores \in {cs \in ChoreCollections :
                   SecondFamilyChore(cs) /\ cs[1].dueDate = StartClock + 24 * MinutesPerHour}
  /\ prefs \in InitialPrefs

NextDigests ==
  \/ Tick
  \/ ProcessDailyDigests

SpecDigests == InitDigests /\ [][NextDigests]_vars

\* The four entry points of the scheduler, on a server whose local time is
\* UTC, over a family whose preference records may be missing.  Chore 1 is a
\* pending chore of u1 in f1, due in six hours or in eight days; chore 2
\* belongs to f1 and is in progress or completed and assigned to u2, or in
\* progress and assigned to nobody.
CoreChoreCollections ==
  { cs \in [Chores -> UNION {ChoreDocs(c) : c \in Chores}
                       \cup {[doc EXCEPT !.dueDate = StartClock + 8 * DayMinutes] :
                               doc \in ChoreDocs(1)}] :
      /\ \E due \in {StartClock + 6 * MinutesPerHour, StartClock + 8 * DayMinutes} :
           \E doc \in ChoreDocs(1) : cs[1] = [doc EXCEPT !.dueDate = due]
      /\ cs[2] \in ChoreDocs(2)
      /\ cs[2].family = "f1"
      /\ cs[2].assignedTo \in {"u2", Null}
      /\ cs[2].assignedTo = Null => cs[2].status = "in_progress" }

InitCore ==
  /\ InitCommon
  /\ tz = 0
  /\ chores \in CoreChoreCollections
  /\ prefs \in { ps \in [Records -> {NewPreferences(s) : s \in Profiles \cup {ProfileEmailOff}}] :
                   \A r \in Records \ {<<"u1", "f1">>} : ps[r].settings = DefaultProfile }
  /\ stored \in { st \in SUBSET Records :
                    /\ {<<"u1", "f2">>, <<"u2", "f2">>} \subseteq st
                    /\ \A r \in Records \ st : prefs[r].settings = DefaultProfile }

NextCore ==
  \/ Tick
  \/ ProcessDueReminders
  \/ ProcessDailyDigests
  \/ ScheduleRemindersForChore
  \/ GetReminderStats

SpecCore == InitCore /\ [][NextCore]_vars

\* Status changes and bulk assignments of the chores of family f1, on
\* documents that start out pending, in progress, or completed with their
\* completion time.
InitChores ==
  /\ InitCommon
  /\ tz = 0
  /\ stored = Records
  /\ prefs = [r \in Records |-> NewPreferences(DefaultProfile)]
  /\ chores \in { cs \in ChoreCollections :
                    /\ cs[1].dueDate = StartClock + 24 * MinutesPerHour
                    /\ cs[2].family = "f1"
                    /\ cs[2].assignedTo = "u2" }

NextChores ==
  \/ Tick
  \/ SaveStatus
  \/ BulkAssign

SpecChores == InitChores /\ [][NextChores]_vars

\* Two invocations of processDueReminders that may overlap, on a server whose
\* local time is UTC, over two chores of u1 in f1: chore 1 is due in six hours
\* and chore 2 in a day.
InitOverlap ==
  /\ InitCommon
  /\ tz = 0
  /\ stored = Records
  /\ chores \in { cs \in ChoreCollections :
                    /\ cs[1].dueDate = StartClock + 6 * MinutesPerHour
                    /\ cs[2].family = "f1"
                    /\ cs[2].assignedTo = "u1"
                    /\ cs[2].status = "in_progress" }
  /\ prefs \in { ps \in InitialPrefs :
                   /\ ps[<<"u1", "f1">>].settings \in {ProfileTiered, ProfileZero}
                   /\ ps[<<"u1", "f2">>].settings = ProfileTiered }

NextOverlap ==
  \/ Tick
  \/ \E i \in Runners : StartPass(i)
  \/ \E i \in Runners : FetchAndCheck(i)
  \/ \E i \in Runners : Dispatch(i)
  \/ \E i \in Runners : Stamp(i)

SpecOverlap == InitOverlap /\ [][NextOverlap]_vars

\* The send decision on its own: the time left until the due date (minutes,
\* negative when overdue) and the three lead times are drawn at the start, and
\* the decision is taken once.
TimesRemaining ==
  {-DayMinutes - MinutesPerHour, -DayMinutes, -MinutesPerHour, 0, 1, MinutesPerHour,
   2 * MinutesPerHour, 2 * MinutesPerHour + 1, DayMinutes, DayMinutes + 1,
   2 * DayMinutes, 3 * DayMinutes, 3 * DayMinutes + 1}

FinalLeads == {0, 2, HoursPerDay}

InitDecision ==
  /\ clock = StartClock
  /\ tz = 0
  /\ chores \in { cs \in ChoreCollections :
                    /\ cs[1].dueDate = StartClock + 24 * MinutesPerHour
                    /\ SecondFamilyChore(cs) }
  /\ prefs = [r \in Records |-> NewPreferences(DefaultProfile)]
  /\ stored = Records
  /\ lastOp = "init"
  /\ reminderOut = NoOutcome
  /\ reminderLog = <<>>
  /\ digestOut = NoDigestOutcome
  /\ digestLog = <<>>
  /\ digestRuns = 0
  /\ created = {}
  /\ args \in TimesRemaining \X (0..MaxLead) \X (0..MaxLead) \X FinalLeads
  /\ returned = NoResult
  /\ digestPayload = NoPayload
  /\ inflight = NoRuns
  /\ writes = 0
  /\ users = BaseUsers

\* The decision for a chore due args[1] minutes from now, under a record with
\* the lead times args[2], args[3] and args[4].
Decide ==
  /\ lastOp = "init"
  /\ lastOp' = "decide"
  /\ returned' = Result("decision",
       ShouldSendReminder(
         NewPreferences([DefaultProfile EXCEPT !.firstReminder = args[2],
                                               !.secondReminder = args[3],
                                               !.finalReminder = args[4]]),
         clock + args[1], clock))
  /\ UNCHANGED <<clock, tz, chores, prefs, reminderOut, reminderLog, digestOut, digestLog,
                 digestRuns, stored, created, args, digestPayload, inflight, writes, users>>

NextDecision == Decide

SpecDecision == InitDecision /\ [][NextDecision]_vars

\* The digest entry point over a record of u1 in f1 that has the digest at
\* 18:00 and no quiet hours, and that was sent its last digest at some time of
\* the day before the start, or never.
LastDigestTimes ==
  {Absent} \cup { <<StartClock - k * TickMinutes>> : k \in 1..4 }

InitDigestGuard ==
  /\ InitCommon
  /\ stored = Records
  /\ chores \in {cs \in ChoreCollections :
                   SecondFamilyChore(cs) /\ cs[1].dueDate = StartClock + 24 * MinutesPerHour}
  /\ \E last \in LastDigestTimes :
       prefs = [r \in Records |->
                  IF r = <<"u1", "f1">>
                  THEN [NewPreferences(ProfileZero) EXCEPT !.dailyDigest = last]
                  ELSE NewPreferences(ProfileTiered)]

NextDigestGuard ==
  \/ Tick
  \/ ProcessDailyDigests

SpecDigestGuard == InitDigestGuard /\ [][NextDigestGuard]_vars

\* The digest entry point over chores of every kind the three queries tell
\* apart: chore 1 is due soon or long overdue, chore 2 is in progress or was
\* completed six, thirty or fifty-four hours before the start, and each stored
\* document has a pending, an approved or no photo verification.  The record
\* of u1 in f1 takes the digest at 18:00.
CompletionTimes == { StartClock - k * MinutesPerHour : k \in {6, 30, 54} }

LongOverdue == StartClock - 10 * DayMinutes

PhotoStates == {Absent, <<"pending">>, <<"approved">>}

InitAggregate ==
  /\ InitCommon
  /\ stored = Records
  /\ prefs = [r \in Records |->
               IF r = <<"u1", "f1">> THEN NewPreferences(ProfileZero)
               ELSE NewPreferences(ProfileTiered)]
  /\ \E d1 \in ChoreDocs(1), d2 \in ChoreDocs(2) :
     \E due \in {StartClock + 6 * MinutesPerHour, LongOverdue} :
     \E done \in CompletionTimes :
     \E p1 \in PhotoStates \ {<<"approved">>}, p2 \in PhotoStates \ {Absent} :
       /\ d1.dueDate = StartClock + 6 * MinutesPerHour
       /\ d2.assignedTo = "u1"
       /\ d2.status = "in_progress" => done = StartClock - 6 * MinutesPerHour
       /\ chores =
            [c \in Chores |->
               IF c = 1
               THEN [d1 EXCEPT !.dueDate = due, !.photoVerification = p1]
               ELSE [d2 EXCEPT !.photoVerification = p2,
                               !.completedAt = IF d2.status = "completed"
                                               THEN <<done>> ELSE Absent]]

NextAggregate ==
  \/ Tick
  \/ ProcessDailyDigests

SpecAggregate == InitAggregate /\ [][NextAggregate]_vars

\* The reminder entry point over records of u1 whose tiers lie one, two or
\* three days before the due date, and a chore of u1 due one or two days after
\* the start.
InitTiers ==
  /\ InitCommon
  /\ stored = Records
  /\ prefs \in { ps \in [Records -> {NewPreferences(ProfileTiered),
                                      NewPreferences(ProfileEarlyTiers)}] :
                   \A f \in Families : ps[<<"u2", f>>].settings = ProfileTiered }
  /\ \E cs \in ChoreCollections :
     \E due \in {StartClock + 24 * MinutesPerHour, StartClock + 48 * MinutesPerHour} :
       /\ cs[1].dueDate = StartClock + 24 * MinutesPerHour
       /\ chores = [cs EXCEPT ![1].dueDate = due]

NextTiers ==
  \/ Tick
  \/ ProcessDueReminders

SpecTiers == InitTiers /\ [][NextTiers]_vars

\* scheduleRemindersForChore and processDueReminders side by side, for a
\* chore of u1 due two or four days after the start: a day after the start
\* the chore is one day before its due date or three.
InitAgreement ==
  /\ InitCommon
  /\ stored = Records
  /\ prefs \in { ps \in [Records -> {NewPreferences(ProfileTiered),
                                      NewPreferences(ProfileEarlyTiers)}] :
                   \A f \in Families : ps[<<"u2", f>>].settings = ProfileTiered }
  /\ \E cs \in ChoreCollections :
     \E due \in {StartClock + 48 * MinutesPerHour, StartClock + 96 * MinutesPerHour} :
       /\ cs[1].dueDate = StartClock + 24 * MinutesPerHour
       /\ SecondFamilyChore(cs)
       /\ chores = [cs EXCEPT ![1].dueDate = due]

NextAgreement ==
  \/ Tick
  \/ ProcessDueReminders
  \/ ScheduleRemindersForChore

SpecAgreement == InitAgreement /\ [][NextAgreement]_vars

\* ------------------------------------------------ /api/families/context
\* The ids a request may name: those of the two families and of one family
\* whose document is gone.
FamilyIds == Families \cup {"f3"}

\* What a handler gives back: the HTTP status and, on 200, the active family.
Response(status, activeFamily) ==
  Result("response", [status |-> status, activeFamily |-> activeFamily])

\* populate("familyId"): the family the field refers to, or null when the
\* field is empty or its family document does not exist.
PopulateFamily(user) ==
  IF user.familyId # Absent /\ user.familyId[1] \in Families THEN user.familyId ELSE Absent

\* The membership test passing for every id.
IsMember_Always(user, familyId) == TRUE

\* user.families.some((f) => f.toString() === familyId)
IsMember(user, familyId) ==
  \E i \in DOMAIN user.families : user.families[i] = familyId

\* The frame of the request handlers: the scheduler's state stays as it is.
RequestFrame ==
  /\ reminderOut' = NoOutcome
  /\ digestOut' = NoDigestOutcome
  /\ digestPayload' = NoPayload
  /\ created' = {}
  /\ UNCHANGED <<clock, tz, chores, prefs, reminderLog, digestLog, digestRuns, stored,
                 inflight, writes>>

\* GET /api/families/context for the session of a user, or without session.
\* A user without a resolvable active family is given the first family of the
\* list; an exception before the write or after it is answered with 500.
GetContext ==
  \E session \in Users \cup {Null} : \E late \in BOOLEAN :
    /\ RequestFrame
    /\ args' = <<"GET", session, Null>>
    /\ IF session = Null THEN
         /\ ~late
         /\ lastOp' = "contextGet"
         /\ returned' = Response(401, Absent)
         /\ UNCHANGED users
       ELSE
         \/ /\ ~late
            /\ lastOp' = "contextFailed"
            /\ returned' = Response(500, Absent)
            /\ UNCHANGED users
         \/ /\ lastOp' = "contextGet"
            /\ IF ~users[session].present THEN
                 /\ ~late
                 /\ returned' = Response(404, Absent)
                 /\ UNCHANGED users
               ELSE IF PopulateFamily(users[session]) = Absent
                       /\ Len(users[session].families) > 0 THEN
                 /\ users' = [users EXCEPT ![session].familyId =
                                              <<users[session].families[1]>>]
                 /\ returned' = IF late THEN Response(500, Absent)
                                ELSE Response(200, PopulateFamily(users'[session]))
               ELSE
                 /\ UNCHANGED users
                 /\ returned' = IF late THEN Response(500, Absent)
                                ELSE Response(200, PopulateFamily(users[session]))

\* POST /api/families/context with a body naming a family, or naming none.
PostContext ==
  \E session \in Users \cup {Null} : \E familyId \in FamilyIds \cup {Null} :
    /\ RequestFrame
    /\ args' = <<"POST", session, familyId>>
    /\ IF session = Null THEN
         /\ lastOp' = "contextPost"
         /\ returned' = Response(401, Absent)
         /\ UNCHANGED users
       ELSE IF familyId = Null THEN
         /\ lastOp' = "contextPost"
         /\ returned' = Response(400, Absent)
         /\ UNCHANGED users
       ELSE
         \/ /\ lastOp' = "contextFailed"
            /\ returned' = Response(500, Absent)
            /\ UNCHANGED users
         \/ /\ lastOp' = "contextPost"
            /\ IF ~users[session].present THEN
                 /\ returned' = Response(404, Absent)
                 /\ UNCHANGED users
               ELSE IF ~IsMember(users[session], familyId) THEN
                 /\ returned' = Response(403, Absent)
                 /\ UNCHANGED users
               ELSE
                 /\ users' = [users EXCEPT ![session].familyId = <<familyId>>]
                 /\ returned' = IF familyId \in Families
                                THEN Response(200, <<familyId>>)
                                ELSE Response(500, Absent)

\* The lists of families a user may have.
FamilyLists == {<<>>, <<"f1">>, <<"f2", "f1">>, <<"f3", "f1">>}

\* The User collections the handlers start from: u1 with any list and any
\* active family, u2 in f2 only, or not in the collection.
ContextUsers ==
  { us \in [Users -> [present : BOOLEAN, familyId : {Absent} \cup {<<f>> : f \in FamilyIds},
                      families : FamilyLists \cup {<<"f2">>},
                      customerId : {Absent}, priceId : {Absent}, hasAccess : {FALSE}]] :
      /\ us["u1"].present
      /\ us["u1"].families \in FamilyLists
      /\ us["u2"].families = <<"f2">>
      /\ us["u2"].familyId = Absent }

InitContext ==
  /\ InitIdle
  /\ tz = 0
  /\ stored = Records
  /\ prefs = [r \in Records |-> NewPreferences(DefaultProfile)]
  /\ chores \in { cs \in ChoreCollections :
                    /\ cs[1].dueDate = StartClock + 24 * MinutesPerHour
                    /\ SecondFamilyChore(cs) }
  /\ users \in ContextUsers

NextContext ==
  \/ GetContext
  \/ PostContext

SpecContext == InitContext /\ [][NextContext]_vars

\* ------------------------------------------------- /api/webhook/stripe
Customers == {"cus_1", "cus_2"}

Prices == {"price_basic", "price_other"}

\* The price ids of configFile.stripe.plans.
ConfiguredPlans == {"price_basic"}

\* The event types the switch names without acting on them, and one it does
\* not name.
IdleEventTypes ==
  {"checkout.session.expired", "customer.subscription.updated", "invoice.payment_failed",
   "customer.created"}

\* A webhook request: the outcome of the signature check, the event type, and
\* what the handler reads from the event and from Stripe: the customer and
\* price ids, the client reference id, the customer's email address (an
\* address is written as the id of the user it belongs to), and whether the
\* Stripe call of the handler succeeds.
Event(signature, type, customer, price, ref, email, api) ==
  [signature |-> signature, type |-> type, customer |-> customer, price |-> price,
   ref |-> ref, email |-> email, api |-> api]

Optional(S) == {Absent} \cup {<<x>> : x \in S}

StripeEvents ==
  { Event("valid", "checkout.session.completed", <<c>>, p, r, e, api) :
      c \in Customers, p \in Optional(Prices), r \in Optional({"u1"}),
      e \in Optional({"u2"}), api \in {"ok", "throw"} }
  \cup
  { Event("valid", "customer.subscription.deleted", <<c>>, Absent, Absent, Absent, api) :
      c \in Customers, api \in {"ok", "throw"} }
  \cup
  { Event("valid", "invoice.paid", c, p, Absent, Absent, "ok") :
      c \in Optional(Customers), p \in Optional(Prices) }
  \cup
  { Event("valid", t, Absent, Absent, Absent, Absent, "ok") : t \in IdleEventTypes }
  \cup
  { Event(s, t, <<"cus_1">>, <<"price_basic">>, <<"u1">>, Absent, "ok") :
      s \in {"missing", "invalid"},
      t \in {"checkout.session.completed", "customer.subscription.deleted", "invoice.paid"} }

\* User.findOne({customerId}): the users in the collection that match; a null
\* customer matches the users without customer id.
FindByCustomer(us, customer) ==
  { u \in Users : us[u].present /\ us[u].customerId = customer }

\* user.save(): the write is refused when another user holds the customer id
\* (unique sparse index); the collection is then as before the save.
SaveUser(us, u, doc) ==
  IF doc.customerId # Absent
     /\ \E v \in Users \ {u} : us[v].present /\ us[v].customerId = doc.customerId
  THEN us
  ELSE [us EXCEPT ![u] = doc]

\* case "checkout.session.completed": the collections the handler may leave.
CheckoutCompleted(us, ev) ==
  IF ev.price = Absent \/ ev.price[1] \notin ConfiguredPlans THEN {us}
  ELSE IF ev.api = "throw" THEN {us}
  ELSE IF ev.ref # Absent THEN
    IF us[ev.ref[1]].present
    THEN {SaveUser(us, ev.ref[1], [us[ev.ref[1]] EXCEPT !.priceId = ev.price,
                                                        !.customerId = ev.customer,
                                                        !.hasAccess = TRUE])}
    ELSE {us}
  ELSE IF ev.email # Absent THEN
    LET u == ev.email[1]
        found == IF us[u].present THEN us
                 ELSE [us EXCEPT ![u] = [NewUser EXCEPT !.present = TRUE]]
    IN  {SaveUser(found, u, [found[u] EXCEPT !.priceId = ev.price,
                                             !.customerId = ev.customer,
                                             !.hasAccess = TRUE])}
  ELSE {us}

\* case "customer.subscription.deleted"
SubscriptionDeleted(us, ev) ==
  IF ev.api = "throw" \/ FindByCustomer(us, ev.customer) = {} THEN {us}
  ELSE { [us EXCEPT ![u].hasAccess = FALSE] : u \in FindByCustomer(us, ev.customer) }

\* InvoicePaid without the comparison of the price ids.
InvoicePaid_AnyPrice(us, ev) ==
  IF FindByCustomer(us, ev.customer) = {} THEN {us}
  ELSE { [us EXCEPT ![u].hasAccess = TRUE] : u \in FindByCustomer(us, ev.customer) }

\* case "invoice.paid"
InvoicePaid(us, ev) ==
  IF FindByCustomer(us, ev.customer) = {} THEN {us}
  ELSE { IF us[u].priceId # ev.price THEN us ELSE [us EXCEPT ![u].hasAccess = TRUE] :
           u \in FindByCustomer(us, ev.customer) }

\* The switch over the event type.
WebhookEffect(us, ev) ==
  IF ev.type = "checkout.session.completed" THEN CheckoutCompleted(us, ev)
  ELSE IF ev.type = "customer.subscription.deleted" THEN SubscriptionDeleted(us, ev)
  ELSE IF ev.type = "invoice.paid" THEN InvoicePaid(us, ev)
  ELSE {us}

\* POST /api/webhook/stripe.  connectMongo runs outside every try block; the
\* signature check answers 400; whatever the switch does or throws, the
\* answer to a verified event is 200.
StripeWebhook ==
  \E ev \in StripeEvents :
    /\ RequestFrame
    /\ args' = <<ev>>
    /\ \/ /\ lastOp' = "webhookFailed"
          /\ returned' = Response(500, Absent)
          /\ UNCHANGED users
       \/ /\ lastOp' = "webhook"
          /\ IF ev.signature # "valid" THEN
               /\ returned' = Response(400, Absent)
               /\ UNCHANGED users
             ELSE
               /\ returned' = Response(200, Absent)
               /\ users' \in WebhookEffect(users, ev)

\* The User collections the webhook starts from: u1 with or without a
\* customer and a price, with or without access; u2 not yet in the collection.
BillingUsers ==
  { us \in [Users -> [present : BOOLEAN, familyId : {Absent}, families : {<<>>},
                      customerId : Optional({"cus_1"}), priceId : Optional(Prices),
                      hasAccess : BOOLEAN]] :
      /\ us["u1"].present
      /\ us["u2"] = NewUser }

InitBilling ==
  /\ InitIdle
  /\ tz = 0
  /\ stored = Records
  /\ prefs = [r \in Records |-> NewPreferences(DefaultProfile)]
  /\ chores \in { cs \in ChoreCollections :
                    /\ cs[1].dueDate = StartClock + 24 * MinutesPerHour
                    /\ SecondFamilyChore(cs) }
  /\ users \in BillingUsers

NextBilling == StripeWebhook

SpecBilling == InitBilling /\ [][NextBilling]_vars

\* ------------------------------------------------------------ properties
RecordOf(c) == <<chores[c].assignedTo, chores[c].family>>

\* Outcomes of an iteration that reached the dispatcher call.
Attempted == {"sent", "failed", "error"}

\* C1 (as stated): any two successful reminder dispatches to the same user,
\* whatever the family, are at least 12 hours apart.
C1_OnePerUserPer12h ==
  \A i, j \in DOMAIN reminderLog :
    (i < j /\ reminderLog[i].user = reminderLog[j].user)
      => reminderLog[j].at - reminderLog[i].at >= 12 * 60

\* C1 (amended): any two successful reminder dispatches for the same
\* (user, family) preference record are at least 12 hours apart.
C1_OnePerRecordPer12h ==
  \A i, j \in DOMAIN reminderLog :
    (i < j /\ reminderLog[i].user = reminderLog[j].user
           /\ reminderLog[i].family = reminderLog[j].family)
      => reminderLog[j].at - reminderLog[i].at >= 12 * 60

\* A record was reminded twice, the second time 12 hours after the first.
C1_Witness ==
  \E i, j \in DOMAIN reminderLog :
    /\ i < j
    /\ reminderLog[i].user = reminderLog[j].user
    /\ reminderLog[i].family = reminderLog[j].family
    /\ reminderLog[j].at = reminderLog[i].at + 12 * 60
    /\ lastOp = "reminders"

\* C2 (as stated): no user is sent two daily digests on one calendar day.
C2_OneDigestPerUserPerDay ==
  \A i, j \in DOMAIN digestLog :
    (i < j /\ digestLog[i].user = digestLog[j].user)
      => digestLog[i].at \div (24 * 60) # digestLog[j].at \div (24 * 60)

\* C2 (amended): no (user, family) preference record is sent two daily
\* digests on one calendar day of the UTC clock.
C2_OneDigestPerRecordPerDay ==
  \A i, j \in DOMAIN digestLog :
    (i < j /\ digestLog[i].user = digestLog[j].user
           /\ digestLog[i].family = digestLog[j].family)
      => digestLog[i].at \div (24 * 60) # digestLog[j].at \div (24 * 60)

\* A record got the digest of one day and, after a second invocation on that
\* day that skipped it, the digest of the next day.
C2_Witness ==
  \E i, j \in DOMAIN digestLog :
    /\ i < j
    /\ digestLog[i].user = digestLog[j].user
    /\ digestLog[i].family = digestLog[j].family
    /\ digestLog[j].at \div (24 * 60) = digestLog[i].at \div (24 * 60) + 1
    /\ digestRuns = 2
    /\ digestOut[<<digestLog[j].user, digestLog[j].family>>] = "already"

\* The dispatches of the log made to record r at time t.
DigestsAt(r, t) ==
  { i \in DOMAIN digestLog :
      digestLog[i].user = r[1] /\ digestLog[i].family = r[2] /\ digestLog[i].at = t }

ActiveAssigned(c) ==
  /\ chores[c].status \in {"pending", "in_progress"}
  /\ chores[c].assignedTo # Null

\* The record of chore c lets a reminder through at the start of the pass:
\* toggles on, outside quiet hours, no reminder in the last 12 hours.
RecordOpen(c) ==
  LET p == prefs[RecordOf(c)] IN
  /\ p.settings.emailEnabled
  /\ p.settings.choreReminders
  /\ IsNotificationAllowed(p, clock, tz)
  /\ (p.choreReminder = Absent \/ clock - p.choreReminder[1] >= 12 * 60)

\* After the pass, chore c got its dispatch attempt, or was rate-limited
\* behind another chore of its record that was sent in the pass.
AttemptedOrBehindSent(c) ==
  \/ reminderOut'[c] \in Attempted
  \/ /\ reminderOut'[c] = "ratelimited"
     /\ \E d \in Chores \ {c} : RecordOf(d) = RecordOf(c) /\ reminderOut'[d] = "sent"

\* C5: a pass of processDueReminders attempts a reminder for every pending or
\* in-progress assigned chore that is due now or overdue, whatever the lead
\* times, when the toggles are on, outside quiet hours and not rate-limited.
C5_DueOrOverdueAlwaysReminded ==
  [][ lastOp' = "reminders" =>
        \A c \in Chores :
          (/\ ActiveAssigned(c)
           /\ CeilDiv(chores[c].dueDate - clock, 24 * 60) <= 0
           /\ RecordOpen(c))
            => AttemptedOrBehindSent(c) ]_vars

\* C6: the chores a pass of processDueReminders considers are exactly the
\* pending or in-progress chores with an assignee and dueDate <= now + 24 hours,
\* those already overdue included.
C6_CandidatesIncludeOverdue ==
  lastOp = "reminders" =>
    \A c \in Chores :
      reminderOut[c] # "none" <=>
        (ActiveAssigned(c) /\ chores[c].dueDate <= clock + 24 * 60)

\* C7: a pending or in-progress assigned chore whose daysUntilDue equals a
\* positive firstReminder or secondReminder of its assignee gets one reminder in
\* the pass, and lastNotifications.choreReminder becomes now, when the toggles
\* are on, outside quiet hours, with no earlier reminder and a dispatcher that
\* succeeds.
C7_TierDayReminded ==
  [][ lastOp' = "reminders" =>
        \A c \in Chores :
          (/\ ActiveAssigned(c)
           /\ RecordOpen(c)
           /\ prefs[RecordOf(c)].choreReminder = Absent
           /\ LET d == CeilDiv(chores[c].dueDate - clock, 24 * 60)
                  t == prefs[RecordOf(c)].settings
              IN  \/ d = t.firstReminder /\ t.firstReminder > 0
                  \/ d = t.secondReminder /\ t.secondReminder > 0)
            => /\ AttemptedOrBehindSent(c)
               /\ reminderOut'[c] = "sent" => prefs'[RecordOf(c)].choreReminder = <<clock>> ]_vars

\* C8: a record whose lastNotifications.choreReminder is less than 12 hours
\* old gets no dispatch attempt in the pass and is left unchanged; a record
\* whose timestamp is absent or at least 12 hours old is not held back by the
\* rate limit (a chore of it is rate-limited only behind a chore of the same
\* record sent earlier in the pass).
C8_RateLimitGate ==
  [][ lastOp' = "reminders" =>
        \A r \in Records :
          IF prefs[r].choreReminder # Absent /\ clock - prefs[r].choreReminder[1] < 12 * 60
          THEN /\ prefs'[r] = prefs[r]
               /\ \A c \in Chores : RecordOf(c) = r => reminderOut'[c] \notin Attempted
          ELSE \A c \in Chores :
                 (RecordOf(c) = r /\ reminderOut'[c] = "ratelimited")
                   => \E d \in Chores \ {c} : RecordOf(d) = r /\ reminderOut'[d] = "sent" ]_vars

\* A chore was skipped by the rate limit: its assignee was reminded 6 hours ago.
C8_Witness ==
  /\ lastOp = "reminders"
  /\ \E c \in Chores :
       /\ reminderOut[c] = "ratelimited"
       /\ prefs[RecordOf(c)].choreReminder = <<clock - 6 * 60>>

\* The chores a pass selects: due within the next 24 hours, pending or in
\* progress, with an assignee.
Selected(c) ==
  /\ ActiveAssigned(c)
  /\ chores[c].dueDate >= clock
  /\ chores[c].dueDate <= clock + 24 * 60

\* Every other candidate is processed and, when eligible, attempted.
AllCandidatesProcessed ==
  \A c \in Chores :
    Selected(c) =>
      /\ reminderOut'[c] # "none"
      /\ (RecordOpen(c) /\ ShouldSendReminder(prefs[RecordOf(c)], chores[c].dueDate, clock))
           => AttemptedOrBehindSent(c)

\* C9 (as stated): when a candidate fails, the lastNotifications.choreReminder
\* of its user is not updated in the pass, and every other candidate is still
\* processed and, when eligible, attempted.
C9_FailedUserNotUpdated ==
  [][ lastOp' = "reminders" =>
        /\ \A c \in Chores :
             reminderOut'[c] \in {"failed", "error"}
               => prefs'[RecordOf(c)].choreReminder = prefs[RecordOf(c)].choreReminder
        /\ AllCandidatesProcessed ]_vars

\* C9 (amended): a failing candidate writes no timestamp: a record changes in
\* the pass only if a chore of that record was sent, and then only its
\* choreReminder, which becomes now; every other candidate is still processed
\* and, when eligible, attempted.
C9_FailureWritesNothing ==
  [][ lastOp' = "reminders" =>
        /\ \A r \in Records :
             IF \E c \in Chores : RecordOf(c) = r /\ reminderOut'[c] = "sent"
             THEN prefs'[r] = [prefs[r] EXCEPT !.choreReminder = <<clock>>]
             ELSE prefs'[r] = prefs[r]
        /\ AllCandidatesProcessed ]_vars

\* One candidate failed, its record was left without a timestamp, and the
\* other candidate, of another record, was sent.
C9_Witness ==
  /\ lastOp = "reminders"
  /\ \E c, d \in Chores :
       /\ reminderOut[c] \in {"failed", "error"}
       /\ reminderOut[d] = "sent"
       /\ RecordOf(c) # RecordOf(d)
       /\ prefs[RecordOf(c)].choreReminder = Absent
       /\ prefs[RecordOf(d)].choreReminder = <<clock>>

\* C10: in a pass of processDailyDigests a successful send stamps the record's
\* lastNotifications.dailyDigest, a failure on a record (an unresolvable user or
\* family included) leaves the record untouched, and every record of the batch
\* is processed whatever happened to the others.
C10_DigestFailureIsolated ==
  [][ lastOp' = "digests" =>
        \A r \in Records :
          /\ digestOut'[r] # "unprocessed"
          /\ digestOut'[r] = "sent" => prefs'[r].dailyDigest = <<clock>>
          /\ digestOut'[r] \in {"failed", "error", "abort"} => prefs'[r] = prefs[r] ]_vars

\* C11: no entry point lets an exception reach its caller; a pass whose
\* connection or candidate query fails dispatches nothing and changes no
\* timestamp; getReminderStats returns null when a query fails.
C11_NoFailureIsFatal ==
  [][ /\ returned'.kind # "exception"
      /\ lastOp' \in {"remindersFailed", "digestsFailed"} =>
           /\ prefs' = prefs
           /\ reminderLog' = reminderLog
           /\ digestLog' = digestLog
           /\ \A c \in Chores : reminderOut'[c] = "none"
           /\ \A r \in Records : digestOut'[r] = "none"
           /\ returned'.kind = "undefined"
      /\ lastOp' = "statsFailed" => returned'.kind = "null" ]_vars

\* A reminder pass failed at its query although a chore was due within the
\* window, after an earlier pass had dispatched; nothing was raised.
C11_Witness ==
  /\ lastOp = "remindersFailed"
  /\ returned.kind = "undefined"
  /\ \E c \in Chores : c \in ChoresDueForReminders(chores, clock)
  /\ reminderLog # <<>>

StampedBySend(r) ==
  /\ prefs'[r].choreReminder # prefs[r].choreReminder =>
       /\ lastOp' = "reminders"
       /\ prefs'[r].choreReminder = <<clock>>
       /\ Cardinality({c \in Chores : /\ chores[c].assignedTo = r[1]
                                      /\ chores[c].family = r[2]
                                      /\ reminderOut'[c] = "sent"}) = 1
  /\ prefs'[r].dailyDigest # prefs[r].dailyDigest =>
       /\ lastOp' = "digests"
       /\ prefs'[r].dailyDigest = <<clock>>
       /\ digestOut'[r] = "sent"

\* C13 (as stated): whatever entry point runs, the chores, the set of
\* preference records and every preference field but the lastNotifications
\* timestamps stay as they were, and a timestamp changes only by a successful
\* dispatch.
C13_OnlyTimestampsChange ==
  [][ /\ chores' = chores
      /\ stored' = stored
      /\ \A r \in Records :
           /\ prefs'[r].settings = prefs[r].settings
           /\ StampedBySend(r) ]_vars

\* C13 (amended): whatever entry point runs, the chores and the settings of
\* every preference record stay as they were and a timestamp changes only by a
\* successful dispatch; no record is removed, and a record is added only by
\* processDueReminders or scheduleRemindersForChore, for the assignee and
\* family of a chore the call looked at, with the default settings.
C13_TimestampsAndCreation ==
  [][ /\ chores' = chores
      /\ stored \subseteq stored'
      /\ \A r \in stored' \ stored :
           /\ prefs[r].settings = DefaultProfile
           /\ \/ /\ lastOp' = "reminders"
                 /\ \E c \in Chores : /\ chores[c].assignedTo = r[1]
                                       /\ chores[c].family = r[2]
                                       /\ reminderOut'[c] # "none"
              \/ /\ lastOp' = "schedule"
                 /\ \E c \in Chores : /\ args' = <<c>>
                                       /\ chores[c].assignedTo = r[1]
                                       /\ chores[c].family = r[2]
                                       /\ chores[c].status \notin {"completed", "verified"}
      /\ \A r \in Records :
           /\ prefs'[r].settings = prefs[r].settings
           /\ StampedBySend(r) ]_vars

\* A reminder pass created the record of an assignee and stamped it after the
\* dispatch.
C13_Witness ==
  /\ lastOp = "reminders"
  /\ \E c \in Chores :
       /\ reminderOut[c] = "sent"
       /\ RecordOf(c) \in created
       /\ prefs[RecordOf(c)].choreReminder = <<clock>>

\* The stored points of the chores in S, added up.
RECURSIVE StoredPoints(_)
StoredPoints(S) ==
  IF S = {} THEN 0
  ELSE LET c == CHOOSE x \in S : TRUE IN chores[c].points + StoredPoints(S \ {c})

\* C14: in every digest handed to the dispatcher, totalPointsEarned is the sum
\* of the points of the chores of the completed set, each counted once, and
\* overdueChores has exactly one entry per overdue chore of the family.
C14_DigestTotals ==
  \A r \in Records :
    digestPayload[r] # <<>> =>
      LET d == digestPayload[r][1]
          overdue == { c \in Chores : /\ chores[c].family = r[2]
                                      /\ chores[c].dueDate < clock
                                      /\ chores[c].status \in {"pending", "in_progress"} }
      IN  /\ ~d.totalPointsEarned.nan
          /\ d.totalPointsEarned.n =
               StoredPoints({d.completedChores[i].chore : i \in DOMAIN d.completedChores})
          /\ Len(d.overdueChores) = Cardinality(overdue)
          /\ \A c \in overdue :
               Cardinality({i \in DOMAIN d.overdueChores : d.overdueChores[i].chore = c}) = 1

\* C15: whatever status changes are saved through the Chore model and whatever
\* bulk assignments are made, every chore has completedAt set exactly when its
\* status is completed or verified, and has verifiedAt set only when its status
\* is verified and completedAt is set and not later than verifiedAt.
C15_LifecycleInvariant ==
  \A c \in Chores :
    /\ (chores[c].completedAt # <<>>) <=> (chores[c].status \in {"completed", "verified"})
    /\ (chores[c].verifiedAt # <<>>) =>
         /\ chores[c].status = "verified"
         /\ chores[c].completedAt # <<>>
         /\ chores[c].completedAt[1] <= chores[c].verifiedAt[1]

\* C16: the rate-limit check reads the timestamp that is stored when the
\* invocation fetches the record, so an invocation goes on to dispatch only
\* for a record whose stored timestamp is absent or at least 12 hours old at
\* that moment: an invocation that runs after another one has stamped a record
\* dispatches nothing to it, and two dispatches to one record within 12 hours
\* come only from invocations that both read before either stamped.
C16_CheckReadsStoredTimestamp ==
  [][ \A i \in Runners :
        (inflight[i].pc = "looping" /\ inflight'[i].pc = "dispatching") =>
          LET r == RecordOf(Head(inflight[i].todo)) IN
          /\ inflight'[i].seen = prefs[r].choreReminder
          /\ \/ prefs[r].choreReminder = <<>>
             \/ inflight[i].now - prefs[r].choreReminder[1] >= 12 * 60 ]_vars

\* Two overlapping invocations both dispatched a reminder to the same record
\* at the same time, each having read the record before the other stamped it.
C16_Witness ==
  \E i, j \in DOMAIN reminderLog :
    /\ i < j
    /\ reminderLog[i].user = reminderLog[j].user
    /\ reminderLog[i].family = reminderLog[j].family
    /\ reminderLog[i].at = reminderLog[j].at
    /\ reminderLog[i].by # reminderLog[j].by
    /\ reminderLog[i].seen = reminderLog[j].seen

\* No reminder of the record of chore c was dispatched in the pass that out
\* describes.
NoneSentFor(c, out) ==
  \A c2 \in Chores :
    (chores[c2].assignedTo = chores[c].assignedTo /\ chores[c2].family = chores[c].family)
      => out[c2] # "sent"

ActiveDue(familyId, from, until) ==
  { c \in Chores : /\ (familyId = "null" \/ chores[c].family = familyId)
                   /\ chores[c].status \in {"pending", "in_progress"}
                   /\ from <= chores[c].dueDate
                   /\ chores[c].dueDate < until }

\* C18: getReminderStats changes no stored state; what it returns counts the
\* pending or in-progress chores due within the next day, due within the next
\* week and overdue, and the stored preference records with reminders and with
\* the digest enabled; the due-today count never exceeds the due-this-week
\* count, and no chore is counted both as overdue and as due this week.
C18_StatsReadOnly ==
  [][ lastOp' = "stats" =>
        LET f == args'[1]
            st == returned'.value
        IN  /\ chores' = chores /\ prefs' = prefs /\ stored' = stored
            /\ st.choresDueToday = Cardinality(ActiveDue(f, clock, clock + 24 * 60))
            /\ st.choresDueThisWeek = Cardinality(ActiveDue(f, clock, clock + 7 * 24 * 60))
            /\ st.overdueChores = Cardinality(ActiveDue(f, 0, clock))
            /\ st.usersWithRemindersEnabled =
                 Cardinality({ r \in stored : /\ (f = "null" \/ r[2] = f)
                                              /\ prefs[r].settings.emailEnabled
                                              /\ prefs[r].settings.choreReminders })
            /\ st.usersWithDailyDigest =
                 Cardinality({ r \in stored : /\ (f = "null" \/ r[2] = f)
                                              /\ prefs[r].settings.emailEnabled
                                              /\ prefs[r].settings.dailyDigest })
            /\ st.choresDueToday <= st.choresDueThisWeek
            /\ st.overdueChores + st.choresDueThisWeek
                 <= Cardinality(ActiveDue(f, 0, clock + 7 * 24 * 60)) ]_vars

\* Statistics with an overdue chore and a chore that is due this week but not
\* within the next day.
C18_Witness ==
  /\ lastOp = "stats"
  /\ returned.value.overdueChores >= 1
  /\ returned.value.choresDueToday < returned.value.choresDueThisWeek
  /\ returned.value.usersWithDailyDigest >= 1

\* ceil(minutes / one day) for the time left until the due date.
DaysLeft(minutes) ==
  IF minutes > 0 THEN (minutes + 24 * 60 - 1) \div (24 * 60) ELSE -((-minutes) \div (24 * 60))

\* C19: for every time left until the due date and all non-negative lead
\* times, the decision is to send exactly when daysUntilDue <= 0, or
\* daysUntilDue equals a first lead that is positive, or equals a second lead
\* that is positive, or daysUntilDue = 0 and the time left is at most a
\* positive final lead, in hours.
C19_DecisionIsDisjunction ==
  lastOp = "decide" =>
    LET d == DaysLeft(args[1]) IN
    returned.value <=>
      \/ d <= 0
      \/ (d = args[2] /\ args[2] > 0)
      \/ (d = args[3] /\ args[3] > 0)
      \/ (d = 0 /\ args[1] <= args[4] * 60 /\ args[4] > 0)

\* The decision was to send for a chore that is two days ahead, by the second
\* tier alone.
C19_Witness ==
  /\ lastOp = "decide"
  /\ returned.value
  /\ DaysLeft(args[1]) = 2
  /\ args[2] = 3
  /\ args[3] = 2

\* C20: a lead time of 0 switches its tier off.  scheduleRemindersForChore
\* returns no reminder of type first, second or final when the lead time of
\* that type is 0; and processDueReminders finds a chore with daysUntilDue > 0
\* due for a reminder only when daysUntilDue equals a first or second lead time
\* that is positive.
C20_ZeroLeadDisablesTier ==
  [][ /\ (lastOp' = "schedule" /\ returned'.kind = "reminders") =>
           LET st == prefs[RecordOf(args'[1])].settings
               rs == returned'.value
           IN  \A i \in DOMAIN rs :
                 /\ rs[i].type = "first" => st.firstReminder > 0
                 /\ rs[i].type = "second" => st.secondReminder > 0
                 /\ rs[i].type = "final" => st.finalReminder > 0
      /\ lastOp' = "reminders" =>
           \A c \in Chores :
             ( /\ DaysLeft(chores[c].dueDate - clock) > 0
               /\ reminderOut'[c] \in {"sent", "failed", "error", "ratelimited"} )
             => LET st == prefs[RecordOf(c)].settings
                    d == DaysLeft(chores[c].dueDate - clock)
                IN  \/ (d = st.firstReminder /\ st.firstReminder > 0)
                    \/ (d = st.secondReminder /\ st.secondReminder > 0) ]_vars

\* scheduleRemindersForChore returned an empty array for a chore that is due
\* in the future and whose assignee has every lead time at 0.
C20_Witness ==
  /\ lastOp = "schedule"
  /\ returned.kind = "reminders"
  /\ returned.value = <<>>
  /\ chores[args[1]].dueDate > clock
  /\ prefs[RecordOf(args[1])].settings.firstReminder = 0
  /\ prefs[RecordOf(args[1])].settings.secondReminder = 0
  /\ prefs[RecordOf(args[1])].settings.finalReminder = 0

\* C21: a pass reaches the dispatcher call for a record only if the local
\* time of the pass, as HH:MM, equals the record's dailyDigestTime and the
\* record has the email channel and the daily digest switched on; at any other
\* minute the pass does not even look at the record.
C21_DigestOnlyAtItsMinute ==
  [][ lastOp' = "digests" =>
        \A r \in Records :
          LET matches ==
                /\ prefs[r].settings.emailEnabled
                /\ prefs[r].settings.dailyDigest
                /\ prefs[r].settings.dailyDigestTime[1] = ((clock + tz) \div 60) % 24
                /\ prefs[r].settings.dailyDigestTime[2] = (clock + tz) % 60
          IN  /\ digestOut'[r] \in {"sent", "failed", "error", "abort"} => matches
              /\ ~matches => /\ digestOut'[r] = "none"
                             /\ prefs'[r] = prefs[r]
                             /\ digestPayload'[r] = <<>> ]_vars

\* A digest was dispatched at 18:00 local time, which is 00:00 UTC, to a
\* record whose dailyDigestTime is 18:00.
C21_Witness ==
  /\ lastOp = "digests"
  /\ tz = -360
  /\ clock % (24 * 60) = 0
  /\ \E r \in Records :
       /\ digestOut[r] = "sent"
       /\ prefs[r].settings.dailyDigestTime = <<18, 0>>

\* C22 (as stated): a record found by a pass is skipped by the guard exactly
\* when its last digest falls on the calendar date of now, the date being
\* taken in the clock of the HH:MM match, which is the server's local time.
C22_GuardByLocalDate ==
  [][ lastOp' = "digests" =>
        \A r \in Records :
          digestOut'[r] \notin {"none", "unprocessed"} =>
            ( digestOut'[r] = "already" <=>
                /\ prefs[r].dailyDigest # <<>>
                /\ (prefs[r].dailyDigest[1] + tz) \div (24 * 60)
                     = (clock + tz) \div (24 * 60) ) ]_vars

\* C22 (amended): a record found by a pass is skipped by the guard exactly
\* when its last digest falls on the calendar date of now in UTC, whatever the
\* local time of the HH:MM match; elapsed time plays no part.
C22_GuardByUtcDate ==
  [][ lastOp' = "digests" =>
        \A r \in Records :
          digestOut'[r] \notin {"none", "unprocessed"} =>
            ( digestOut'[r] = "already" <=>
                /\ prefs[r].dailyDigest # <<>>
                /\ prefs[r].dailyDigest[1] \div (24 * 60) = clock \div (24 * 60) ) ]_vars

\* A pass went on to the dispatcher call for a record whose last digest was
\* sent six hours earlier, on the previous day in UTC but on the same day in
\* local time; the dispatch failed, so the record still shows that digest.
C22_Witness ==
  /\ lastOp = "digests"
  /\ \E r \in Records :
       /\ digestOut[r] = "failed"
       /\ prefs[r].dailyDigest # <<>>
       /\ clock - prefs[r].dailyDigest[1] = 6 * 60
       /\ prefs[r].dailyDigest[1] \div (24 * 60) # clock \div (24 * 60)
       /\ (prefs[r].dailyDigest[1] + tz) \div (24 * 60) = (clock + tz) \div (24 * 60)

\* C23: the digest built for a record holds exactly the family's chores with
\* status completed or verified and completedAt from yesterday 00:00 to the
\* end of today, exactly the family's pending or in-progress chores due
\* strictly before now, however long ago, and the number of the family's
\* chores whose photo verification is pending, whatever their dates.
C23_DigestAggregation ==
  \A r \in Records :
    digestPayload[r] # <<>> =>
      LET d == digestPayload[r][1]
          midnight == ((clock + tz) \div (24 * 60)) * (24 * 60) - tz
          completed == { c \in Chores :
                           /\ chores[c].family = r[2]
                           /\ chores[c].status \in {"completed", "verified"}
                           /\ chores[c].completedAt # <<>>
                           /\ chores[c].completedAt[1] >= midnight - 24 * 60
                           /\ chores[c].completedAt[1] < midnight + 24 * 60 }
          overdue == { c \in Chores :
                         /\ chores[c].family = r[2]
                         /\ chores[c].dueDate < clock
                         /\ chores[c].status \in {"pending", "in_progress"} }
          awaiting == { c \in Chores :
                          /\ chores[c].family = r[2]
                          /\ chores[c].photoVerification = <<"pending">> }
      IN  /\ { d.completedChores[i].chore : i \in DOMAIN d.completedChores } = completed
          /\ Len(d.completedChores) = Cardinality(completed)
          /\ { d.overdueChores[i].chore : i \in DOMAIN d.overdueChores } = overdue
          /\ Len(d.overdueChores) = Cardinality(overdue)
          /\ d.pendingApprovals = Cardinality(awaiting)

\* A digest of f1 lists a chore that is ten days overdue and counts its pending
\* photo verification, while the other chore, completed in f2 with a pending
\* photo verification as well, appears nowhere in it.
C23_Witness ==
  /\ lastOp = "digests"
  /\ digestPayload[<<"u1", "f1">>] # <<>>
  /\ LET d == digestPayload[<<"u1", "f1">>][1] IN
       /\ Len(d.overdueChores) = 1
       /\ d.overdueChores[1].chore = 1
       /\ clock - chores[1].dueDate > 10 * 24 * 60
       /\ d.pendingApprovals = 1
       /\ d.completedChores = <<>>
  /\ chores[2].family = "f2"
  /\ chores[2].status = "completed"
  /\ chores[2].photoVerification = <<"pending">>

\* The chore is a candidate of a pass at the current time.
IsCandidateNow(c) ==
  /\ chores[c].status \in {"pending", "in_progress"}
  /\ chores[c].assignedTo # "null"
  /\ clock <= chores[c].dueDate
  /\ chores[c].dueDate <= clock + 24 * 60

\* The local time of the current time lies in the quiet hours of the settings.
QuietNow(st) ==
  LET m == (clock + tz) % (24 * 60)
      s == st.quietStart[1] * 60 + st.quietStart[2]
      e == st.quietEnd[1] * 60 + st.quietEnd[2]
  IN  IF s <= e THEN s <= m /\ m < e ELSE m >= s \/ m < e

\* The trigger condition of a candidate is true at the current time.
TriggerNow(c, st) ==
  LET days == (chores[c].dueDate - clock + 24 * 60 - 1) \div (24 * 60) IN
  \/ days <= 0
  \/ days = st.firstReminder /\ st.firstReminder > 0
  \/ days = st.secondReminder /\ st.secondReminder > 0

\* The record's last reminder is less than twelve hours old.
LimitedNow(r) ==
  /\ prefs[r].choreReminder # <<>>
  /\ clock - prefs[r].choreReminder[1] < 12 * 60

\* C24: a pass that skips a chore because of quiet hours leaves the record of
\* its user as it was and logs no dispatch for it, and every pass outside the
\* quiet hours decides from the stored state alone: a candidate with enabled
\* reminders and a true trigger whose record is not rate-limited is
\* dispatched, unless a dispatch of the same pass to the same record went
\* before it.
C24_QuietSkipLeavesNoTrace ==
  [][ lastOp' = "reminders" =>
        \A c \in Chores :
          IsCandidateNow(c) =>
            LET r  == RecordOf(c)
                st == prefs[r].settings
            IN  /\ reminderOut'[c] = "quiet" =>
                      /\ prefs'[r] = prefs[r]
                      /\ \A i \in DOMAIN reminderLog' :
                           ~( /\ reminderLog'[i].user = r[1]
                              /\ reminderLog'[i].family = r[2]
                              /\ reminderLog'[i].at = clock )
                /\ ( /\ st.emailEnabled
                     /\ st.choreReminders
                     /\ ~QuietNow(st)
                     /\ TriggerNow(c, st)
                     /\ ~LimitedNow(r) ) => AttemptedOrBehindSent(c) ]_vars

\* A pass has skipped, because of quiet hours, a candidate whose trigger is
\* true and whose record is not rate-limited, and the record carries no
\* timestamp.
C24_Witness ==
  /\ lastOp = "reminders"
  /\ \E c \in Chores :
       /\ reminderOut[c] = "quiet"
       /\ IsCandidateNow(c)
       /\ TriggerNow(c, prefs[RecordOf(c)].settings)
       /\ prefs[RecordOf(c)].choreReminder = <<>>

\* C25: a tier with a positive lead time fires only in a pass whose
\* daysUntilDue equals that lead time, and a missed tier is not caught up: a
\* candidate whose daysUntilDue is positive and equals neither the first nor
\* the second lead time of its record gets no dispatch in the pass, and the
\* pass leaves the record unchanged unless it sent for another chore of it.
C25_NoCatchUp ==
  [][ lastOp' = "reminders" =>
        \A c \in Chores :
          IsCandidateNow(c) =>
            LET r    == RecordOf(c)
                st   == prefs[r].settings
                days == (chores[c].dueDate - clock + 24 * 60 - 1) \div (24 * 60)
            IN  /\ (days > 0 /\ reminderOut'[c] \in {"sent", "failed", "error"})
                      => (days = st.firstReminder \/ days = st.secondReminder)
                /\ (days > 0 /\ days # st.firstReminder /\ days # st.secondReminder)
                      => /\ reminderOut'[c] \notin {"sent", "failed", "error", "ratelimited"}
                         /\ NoneSentFor(c, reminderOut') => prefs'[r] = prefs[r] ]_vars

\* A pass found no reminder due for a chore that is due in a day, under a
\* record with the tiers at three and two days; the chore was two days ahead
\* at the start, and the record has never been sent a reminder.
C25_Witness ==
  /\ lastOp = "reminders"
  /\ \E c \in Chores :
       /\ reminderOut[c] = "notdue"
       /\ IsCandidateNow(c)
       /\ chores[c].dueDate = 2 * 24 * 60 + 24 * 60
       /\ 0 < chores[c].dueDate - clock
       /\ chores[c].dueDate - clock <= 24 * 60
       /\ prefs[RecordOf(c)].settings.firstReminder = 3
       /\ prefs[RecordOf(c)].settings.secondReminder = 2
       /\ prefs[RecordOf(c)].choreReminder = <<>>

C27_ScheduledIsDispatched ==
  [][ lastOp' = "reminders" =>
        \A c \in Chores :
          ( /\ chores[c].status \in {"pending", "in_progress"}
            /\ chores[c].assignedTo # "null" ) =>
            LET r  == RecordOf(c)
                st == prefs[r].settings
                rs == ScheduledReminders(prefs[r], chores[c].dueDate, 24 * 60)
            IN  \A i \in DOMAIN rs :
                  ( /\ rs[i].scheduledFor = clock
                    /\ st.emailEnabled
                    /\ st.choreReminders
                    /\ ~QuietNow(st)
                    /\ ~LimitedNow(r) ) => reminderOut'[c] \in {"sent", "failed", "error"} ]_vars

\* C28: in one pass of processDueReminders at most one dispatch succeeds per
\* (user, family) record: when a chore of a record is sent, every other
\* candidate of that record with a true trigger is either skipped by the rate
\* limit or was attempted before and failed; and when the attempt for a chore
\* fails, another qualifying chore of the same record is attempted as well.
C28_OneSuccessPerRecordPerPass ==
  [][ lastOp' = "reminders" =>
        \A c, d \in Chores :
          ( /\ c # d
            /\ IsCandidateNow(c)
            /\ IsCandidateNow(d)
            /\ RecordOf(c) = RecordOf(d) ) =>
            LET r  == RecordOf(c)
                st == prefs[r].settings
            IN  /\ ~(reminderOut'[c] = "sent" /\ reminderOut'[d] = "sent")
                /\ (reminderOut'[c] = "sent" /\ TriggerNow(d, st))
                      => /\ reminderOut'[d] \in {"ratelimited", "failed", "error"}
                         /\ prefs'[r].choreReminder = <<clock>>
                /\ ( /\ reminderOut'[c] \in {"failed", "error"}
                     /\ TriggerNow(d, st) )
                      => reminderOut'[d] \in {"sent", "failed", "error"} ]_vars

\* Two chores of one record were candidates with a true trigger in a pass:
\* one was sent and the other was skipped by the rate limit.
C28_Witness ==
  /\ lastOp = "reminders"
  /\ \E c, d \in Chores :
       /\ c # d
       /\ RecordOf(c) = RecordOf(d)
       /\ reminderOut[c] = "sent"
       /\ reminderOut[d] = "ratelimited"
       /\ prefs[RecordOf(c)].choreReminder = <<clock>>
       /\ reminderLog[Len(reminderLog)].at = clock

\* C29: whatever GET and POST requests to /api/families/context are made, in
\* any order, a handler never changes a user's list of families, an active
\* family it sets is one of the families of the user's list, and a POST of a
\* user naming a family that is not in the user's list is answered with 403
\* and changes no user.
C29_ActiveFamilyIsMember ==
  [][ lastOp' \in {"contextGet", "contextPost", "contextFailed"} =>
        /\ \A u \in {"u1", "u2"} :
             /\ users'[u].families = users[u].families
             /\ users'[u].familyId # users[u].familyId =>
                   \E i \in DOMAIN users[u].families :
                     users'[u].familyId = <<users[u].families[i]>>
        /\ ( /\ lastOp' = "contextPost"
             /\ args'[1] = "POST"
             /\ args'[2] # "null"
             /\ args'[3] # "null"
             /\ users[args'[2]].present
             /\ \A i \in DOMAIN users[args'[2]].families :
                  users[args'[2]].families[i] # args'[3] )
             => /\ returned'.value.status = 403
                /\ users' = users ]_vars

\* A user whose active family is f1, the only family of the list, asked for
\* f2 and was answered with 403.
C29_Witness ==
  /\ lastOp = "contextPost"
  /\ returned.value.status = 403
  /\ args = <<"POST", "u1", "f2">>
  /\ users["u1"].families = <<"f1">>
  /\ users["u1"].familyId = <<"f1">>

\* C30: for every sequence of Stripe webhook events, an event whose signature
\* is missing or invalid changes no user and is answered with 400; a verified
\* customer.subscription.deleted sets hasAccess to false for the user of the
\* customer and changes nothing else; a verified invoice.paid changes a user
\* only by setting hasAccess to true, and only the user of the customer whose
\* stored priceId equals the invoice's price id; a verified
\* checkout.session.completed changes a user only when its price id is that
\* of a configured plan; every other event type changes no user.
C30_BillingAccess ==
  [][ lastOp' = "webhook" =>
        LET ev == args'[1] IN
        /\ ev.signature \in {"missing", "invalid"} =>
             /\ users' = users
             /\ returned'.value.status = 400
        /\ (ev.signature = "valid" /\ ev.type = "customer.subscription.deleted"
              /\ ev.api = "ok") =>
             \A u \in {"u1", "u2"} :
               users'[u] = IF users[u].present /\ users[u].customerId = ev.customer
                           THEN [users[u] EXCEPT !.hasAccess = FALSE]
                           ELSE users[u]
        /\ (ev.signature = "valid" /\ ev.type = "invoice.paid") =>
             \A u \in {"u1", "u2"} :
               /\ users'[u] # users[u] =>
                    /\ users'[u] = [users[u] EXCEPT !.hasAccess = TRUE]
                    /\ users[u].customerId = ev.customer
                    /\ users[u].priceId = ev.price
               /\ ( /\ users[u].present
                    /\ ev.customer # <<>>
                    /\ users[u].customerId = ev.customer
                    /\ users[u].priceId = ev.price ) => users'[u].hasAccess
        /\ (ev.signature = "valid" /\ ev.type = "checkout.session.completed") =>
             (users' # users => ev.price = <<"price_basic">>)
        /\ (ev.signature = "valid"
              /\ ev.type \notin {"checkout.session.completed",
                                 "customer.subscription.deleted", "invoice.paid"}) =>
             users' = users ]_vars

\* The user of customer cus_2, who got customer, price and access through a
\* checkout, has just lost the access through customer.subscription.deleted.
C30_Witness ==
  /\ lastOp = "webhook"
  /\ args[1].type = "customer.subscription.deleted"
  /\ args[1].signature = "valid"
  /\ args[1].customer = <<"cus_2">>
  /\ \E u \in {"u1", "u2"} :
       /\ users[u].present
       /\ users[u].customerId = <<"cus_2">>
       /\ users[u].priceId = <<"price_basic">>
       /\ ~users[u].hasAccess
====
